---- MODULE Spec2Model ----
(***************************************************************************)
(* Pricing model runtime of reliant-backend (services/model.runtime.ts):   *)
(* three lazily loaded artifacts (ONNX session, similarity index, bucket   *)
(* stats), the three residual estimators, the blender predictResidual, the *)
(* numeric-vector entry point predictBase and the administrative reset,    *)
(* run by concurrent requests on one event loop.                           *)
(*                                                                         *)
(* JavaScript numbers are modelled as exact rationals [num, den] (den > 0,  *)
(* in lowest terms) plus the non-finite values INF and NAN; floating-point *)
(* rounding is not modelled.  null is NULL, undefined is UNDEF.            *)
(***************************************************************************)
EXTENDS Integers, Sequences, FiniteSets, TLC

VARIABLES
  blendEnv,     \* process.env.PRICING_BLEND after split(",").map(Number): three JS numbers
  onnxFile,     \* the model file on disk
  simFile,      \* similarity_index.json on disk
  bucketFile,   \* bucket_stats.json on disk
  session,      \* let session     (model.runtime.ts:88)
  simIndex,     \* let simIndex    (model.runtime.ts:89)
  bucketStats,  \* let bucketStats (model.runtime.ts:90)
  pc,           \* per request: where its predictResidual or predictBase call is suspended
  loc,          \* per request: the locals of the suspended call
  resp,         \* what the step just taken returned to its caller, if it completed a call
  failed,       \* history: the artifacts a load attempt failed to load since the last reset
  fresh,        \* history: no predictResidual call has completed since the last reset
  quotes        \* table quotes: the status column of every row, by quote id

vars == <<blendEnv, onnxFile, simFile, bucketFile, session, simIndex, bucketStats,
          pc, loc, resp, failed, fresh, quotes>>

----------------------------------------------------------------------------
(* Bounds *)

NumCallers == 2

\* the largest bucket of the similarity indexes SpecKnn enumerates
KnnMaxPts == 3

\* the quote ids SpecStatus works on
NumQuotes == 3

Procs == 1..NumCallers

----------------------------------------------------------------------------
(* JavaScript values *)

NULL == [null |-> TRUE]

UNDEF == [undef |-> TRUE]

INF == [inf |-> TRUE]

NAN == [nan |-> TRUE]

Abs(i) == IF i < 0 THEN -i ELSE i

RECURSIVE GCD(_, _)
GCD(a, b) == IF b = 0 THEN a ELSE GCD(b, a % b)

\* the rational n/d in lowest terms with a positive denominator
Rat(n, d) ==
  LET g == GCD(Abs(n), Abs(d))
      s == IF d < 0 THEN -1 ELSE 1
  IN  [num |-> (s * n) \div g, den |-> (s * d) \div g]

Num(i) == Rat(i, 1)

\* typeof x === "number"
IsNumber(x) == "num" \in DOMAIN x \/ "inf" \in DOMAIN x \/ "nan" \in DOMAIN x

\* Number.isFinite(x)
IsFinite(x) == "num" \in DOMAIN x

RAdd(x, y) == Rat(x.num * y.den + y.num * x.den, x.den * y.den)

RMul(x, y) == Rat(x.num * y.num, x.den * y.den)

RDiv(x, y) == Rat(x.num * y.den, x.den * y.num)

RLess(x, y) == x.num * y.den < y.num * x.den

RIsZero(x) == x.num = 0

\* Math.max(0, x) for a finite x
Max0(x) == IF RLess(x, Num(0)) THEN Num(0) ELSE x

RECURSIVE RSum(_)
RSum(s) == IF s = <<>> THEN Num(0) ELSE RAdd(Head(s), RSum(Tail(s)))

----------------------------------------------------------------------------
(* Blend weights *)

\* mutant of BlendComponent: a negative component is kept
BlendComponentSigned(x) == IF IsFinite(x) THEN x ELSE Num(0)

\* one component of PRICING_BLEND after Number(): kept if finite and >= 0, else 0
BlendComponent(x) == IF IsFinite(x) /\ ~RLess(x, Num(0)) THEN x ELSE Num(0)

\* mutant of BLEND_WEIGHTS: the configuration is ignored, equal weights
BLEND_WEIGHTS_EQUAL(env) == [wb |-> Rat(1, 3), wk |-> Rat(1, 3), wo |-> Rat(1, 3)]

\* const BLEND_WEIGHTS: the three components divided by (their sum || 1)
BLEND_WEIGHTS(env) ==
  LET arr == [i \in 1..3 |-> BlendComponent(env[i])]
      s0  == RSum(arr)
      sum == IF RIsZero(s0) THEN Num(1) ELSE s0
  IN  [wb |-> RDiv(arr[1], sum), wk |-> RDiv(arr[2], sum), wo |-> RDiv(arr[3], sum)]

\* process.env.PRICING_BLEND unset: "0.70,0.25,0.05"
DefaultBlend == <<Rat(70, 100), Rat(25, 100), Rat(5, 100)>>

\* the configurations the model starts from: the default, one that trusts only
\* the bucket estimator, and one whose components are all rejected
BlendEnvs == {DefaultBlend, <<Num(1), Num(0), Num(0)>>, <<NAN, Num(-1), INF>>}

\* Strings are sequences of one-character strings.
Digits == {"0", "1", "2", "3", "4", "5", "6", "7", "8", "9"}

\* String.prototype.split(",")
RECURSIVE SplitComma(_)
SplitComma(str) ==
  IF \A i \in 1..Len(str) : str[i] # "," THEN <<str>>
  ELSE LET i == CHOOSE j \in 1..Len(str) :
                  str[j] = "," /\ \A h \in 1..(j - 1) : str[h] # ","
       IN  <<SubSeq(str, 1, i - 1)>> \o SplitComma(SubSeq(str, i + 1, Len(str)))

\* String.prototype.trim(), for blanks
RECURSIVE Trim(_)
Trim(str) ==
  IF str # <<>> /\ Head(str) = " " THEN Trim(Tail(str))
  ELSE IF str # <<>> /\ str[Len(str)] = " " THEN Trim(SubSeq(str, 1, Len(str) - 1))
  ELSE str

\* the value of a sequence of decimal digits
RECURSIVE DigitsValue(_)
DigitsValue(ds) ==
  LET DigitValue ==
        "0" :> 0 @@ "1" :> 1 @@ "2" :> 2 @@ "3" :> 3 @@ "4" :> 4 @@ "5" :> 5 @@ "6" :> 6
        @@ "7" :> 7 @@ "8" :> 8 @@ "9" :> 9
  IN  IF ds = <<>> THEN 0
      ELSE 10 * DigitsValue(SubSeq(ds, 1, Len(ds) - 1)) + DigitValue[ds[Len(ds)]]

\* Number() of an unsigned decimal literal: digits with at most one dot
UnsignedNumber(str) ==
  LET dots == {i \in 1..Len(str) : str[i] = "."}
  IN  IF \E i \in 1..Len(str) : str[i] \notin Digits \cup {"."} THEN NAN
      ELSE IF Cardinality(dots) > 1 THEN NAN
      ELSE LET d  == IF dots = {} THEN Len(str) + 1 ELSE CHOOSE i \in dots : TRUE
               ip == SubSeq(str, 1, d - 1)
               fp == SubSeq(str, d + 1, Len(str))
           IN  IF Len(ip) + Len(fp) = 0 THEN NAN
               ELSE Rat(DigitsValue(ip) * 10^Len(fp) + DigitsValue(fp), 10^Len(fp))

\* Number(str) for a trimmed string made of digits, dots, signs, blanks and
\* letters: "" is 0, "Infinity" is Infinity, a signed decimal literal is its
\* value, everything else is NaN
StringToNumber(str) ==
  IF str = <<>> THEN Num(0)
  ELSE IF str = <<"I", "n", "f", "i", "n", "i", "t", "y">> THEN INF
  ELSE IF Head(str) = "-"
    THEN LET u == UnsignedNumber(Tail(str))
         IN  IF IsFinite(u) THEN RMul(Num(-1), u) ELSE u
  ELSE IF Head(str) = "+" THEN UnsignedNumber(Tail(str))
  ELSE UnsignedNumber(str)

\* "0.70,0.25,0.05"
DefaultBlendString ==
  <<"0", ".", "7", "0", ",", "0", ".", "2", "5", ",", "0", ".", "0", "5">>

\* (process.env.PRICING_BLEND || "0.70,0.25,0.05").split(",").map(x =>
\* Number(x.trim())), destructured into [wb, wk, wo]; env "" stands for unset
ParseBlendEnv(env) ==
  LET str   == IF env = <<>> THEN DefaultBlendString ELSE env
      comps == SplitComma(str)
  IN  [i \in 1..3 |-> IF i <= Len(comps) THEN StringToNumber(Trim(comps[i])) ELSE UNDEF]

\* "x,-1,Infinity": every component is rejected
BlendAllRejected == <<"x", ",", "-", "1", ",", "I", "n", "f", "i", "n", "i", "t", "y">>

\* the values of PRICING_BLEND that SpecBlend starts from
BlendStrings ==
  {<<>>,                                                      \* unset
   <<"1", ",", "0", ",", "0">>,                               \* "1,0,0"
   <<"2", ",", "1", ",", "1">>,                               \* "2,1,1"
   BlendAllRejected,
   <<"0", ".", "6", ",", "0", ".", "2">>,                     \* "0.6,0.2"
   <<" ", "3", " ", ",", " ", "1", " ", ",">>,                \* " 3 , 1 ,"
   <<"0", ",", "0", ",", "0">>,                               \* "0,0,0"
   <<"0", ".", "7", ",", "-", "0", ".", "2", ",", "0", ".", "5">>,  \* "0.7,-0.2,0.5"
   <<"1", ",", "1", ",", "1", ",", "1">>,                     \* "1,1,1,1"
   <<".", "5", ",", "5", ".", ",", "1", " ", "2">>}           \* ".5,5.,1 2"

----------------------------------------------------------------------------
(* Feature records and bucket keys *)

\* mutant of bucketKey: the post code area is left out of the key
bucketKeyNoArea(f) ==
  f.service_type \o "|" \o f.timeframe \o "|" \o f.channel \o "|"

\* function bucketKey: service_type|timeframe|channel|postcode_area
bucketKey(f) ==
  f.service_type \o "|" \o f.timeframe \o "|" \o f.channel \o "|" \o f.postcode_area

\* a quote request whose bucket is known to the artifacts
QuoteFeatures ==
  [service_type |-> "supply_only", timeframe |-> "asap", channel |-> "website",
   postcode_area |-> "B1", qty_sum |-> 4, line_count |-> 2]

\* the record POST /model/warm passes
WarmFeatures ==
  [service_type |-> "supply_only", timeframe |-> "asap", channel |-> "website",
   postcode_area |-> "B", qty_sum |-> 0, line_count |-> 0]

Features == {QuoteFeatures, WarmFeatures}

----------------------------------------------------------------------------
(* Artifact files.  A file is absent, unparseable ("garbage") or a parsed   *)
(* JSON object; buckets is an object (t = "obj", m its entries), JSON null  *)
(* or missing.                                                              *)

Absent == [kind |-> "absent"]

Garbage == [kind |-> "garbage"]

Obj(m) == [t |-> "obj", m |-> m]

JNull == [t |-> "null"]

Missing == [t |-> "undef"]

BucketJson(version, gm, buckets) ==
  [kind |-> "json", version |-> version, global_mean |-> gm, buckets |-> buckets]

SimJson(version, k, buckets) ==
  [kind |-> "json", version |-> version, k |-> k, buckets |-> buckets]

Entry(n, mean, shrink) == [n |-> n, mean |-> mean, shrink_mean |-> shrink]

Pt(q, l, r) == [q |-> q, l |-> l, r |-> r]

BValid ==
  BucketJson(Num(1), Num(-4),
             Obj([key \in {bucketKey(QuoteFeatures)} |-> Entry(Num(3), Num(7), Num(6))]))

BNoVersion == BucketJson(UNDEF, Num(6), Obj([key \in {} |-> UNDEF]))

BNullBuckets == BucketJson(Num(1), Num(6), JNull)

BucketFiles == {Absent, Garbage, BNoVersion, BNullBuckets, BValid}

\* a JSON string
Str(s) == [str |-> s]

\* "version": "1"
BStringVersion == BucketJson(Str("1"), Num(6), Obj([key \in {} |-> UNDEF]))

\* no global_mean, everything else in place
BNoGlobalMean ==
  BucketJson(Num(1), UNDEF,
             Obj([key \in {bucketKey(QuoteFeatures)} |-> Entry(Num(3), Num(7), Num(6))]))

\* no bucket at all, global_mean 50
BEmpty == BucketJson(Num(1), Num(50), Obj([key \in {} |-> UNDEF]))

\* a bucket seen once: n = 1, shrink_mean 120, global_mean 50
BSmallN ==
  BucketJson(Num(1), Num(50),
             Obj([key \in {bucketKey(QuoteFeatures)} |-> Entry(Num(1), Num(120), Num(120))]))

\* a bucket whose shrink_mean is JSON null
BNoShrink ==
  BucketJson(Num(1), Num(50),
             Obj([key \in {bucketKey(QuoteFeatures)} |-> Entry(Num(3), Num(7), NULL)]))

\* "global_mean": 1e999, which JSON.parse reads as Infinity
BInfGlobal ==
  BucketJson(Num(1), INF,
             Obj([key \in {bucketKey(QuoteFeatures)} |-> Entry(Num(3), Num(7), INF)]))

\* no bucket at all, global_mean -4
BNegative == BucketJson(Num(1), Num(-4), Obj([key \in {} |-> UNDEF]))

JsonBucketFiles ==
  BucketFiles \cup {BStringVersion, BNoGlobalMean, BEmpty, BSmallN, BNoShrink, BInfGlobal}

\* the two nearest points to QuoteFeatures both carry residual 6
SValid ==
  SimJson(Num(1), Num(2),
          Obj([key \in {bucketKey(QuoteFeatures)} |->
                 <<Pt(4, 2, 6), Pt(4, 5, 6), Pt(8, 2, -4)>>]))

\* a single historical point with a negative residual
SNegative ==
  SimJson(Num(1), Num(5),
          Obj([key \in {bucketKey(QuoteFeatures)} |-> <<Pt(4, 6, -4)>>]))

\* neither k nor buckets
SNoK == SimJson(Num(1), UNDEF, Missing)

\* passes the top-level shape check, but one point of the bucket is JSON null
SBadEntry ==
  SimJson(Num(1), Num(5),
          Obj([key \in {bucketKey(QuoteFeatures)} |-> <<Pt(4, 2, 6), NULL>>]))

SimFiles == {Absent, Garbage, SNoK, SBadEntry, SValid, SNegative}

\* the points of SValid, the farthest from QuoteFeatures first
SUnsorted ==
  SimJson(Num(1), Num(2),
          Obj([key \in {bucketKey(QuoteFeatures)} |->
                 <<Pt(8, 2, -4), Pt(4, 5, 6), Pt(4, 2, 6)>>]))

\* no version, everything else in place
SNoVersion ==
  SimJson(UNDEF, Num(2), Obj([key \in {bucketKey(QuoteFeatures)} |-> <<Pt(4, 2, 6)>>]))

\* "k": "5"
SStringK ==
  SimJson(Num(1), Str("5"), Obj([key \in {bucketKey(QuoteFeatures)} |-> <<Pt(4, 2, 6)>>]))

JsonSimFiles == SimFiles \cup {SNoVersion, SStringK}

\* historical points around QuoteFeatures (qty_sum 4, line_count 2), at
\* distances 0, 1, 3 and 3, with residual 6 or -4
KnnPoints ==
  {Pt(4, 2, 6), Pt(4, 2, -4), Pt(5, 2, 6), Pt(5, 2, -4), Pt(7, 2, 6), Pt(4, 5, -4)}

KnnBuckets == UNION {[1..n -> KnnPoints] : n \in 0..KnnMaxPts}

\* values of "k" that pass the shape check
KnnKs == {Num(0), Num(1), Num(2), Num(5), Num(-1)}

\* a well-formed similarity index with one bucket
KnnIndex(k, pts) == SimJson(Num(1), k, Obj([key \in {bucketKey(QuoteFeatures)} |-> pts]))

KnnFiles == {KnnIndex(k, pts) : k \in KnnKs, pts \in KnnBuckets}

\* two points at the query with residuals 100 and 140
SExactPair == KnnIndex(Num(2), <<Pt(4, 2, 100), Pt(4, 2, 140)>>)

\* the model file: absent, not loadable, or a model with named inputs
OnnxFiles == {"absent", "corrupt", "named"}

\* the same, and a legacy model that declares one numeric-vector input
ModelFiles == OnnxFiles \cup {"single"}

----------------------------------------------------------------------------
(* Loaders (synchronous ones as functions of the cache and the file) *)

\* mutant of ensureBucketStatsLoaded: a failed attempt is remembered until the reset
ensureBucketStatsLoadedSticky(cache, file) ==
  IF cache # NULL \/ "bucket" \in failed THEN cache
  ELSE IF file.kind \in {"absent", "garbage"} THEN NULL
  ELSE IF \/ ~IsNumber(file.version)
          \/ ~IsNumber(file.global_mean)
          \/ file.buckets.t \in {"undef", "null"} THEN NULL
  ELSE file

\* ensureBucketStatsLoaded: the value of bucketStats after the call
ensureBucketStatsLoaded(cache, file) ==
  IF cache # NULL THEN cache
  ELSE IF file.kind = "absent" THEN NULL            \* !fs.existsSync(p)
  ELSE IF file.kind = "garbage" THEN NULL           \* JSON.parse throws
  ELSE IF \/ ~IsNumber(file.version)
          \/ ~IsNumber(file.global_mean)
          \/ file.buckets.t = "undef" THEN NULL     \* Invalid shape
  ELSE IF file.buckets.t = "null" THEN NULL         \* Object.keys(null) throws in the log line
  ELSE file

\* mutant of ensureSimilarIndexLoaded: version is not checked
ensureSimilarIndexLoadedAnyVersion(cache, file) ==
  IF cache # NULL THEN cache
  ELSE IF file.kind = "absent" THEN NULL
  ELSE IF file.kind = "garbage" THEN NULL
  ELSE IF \/ ~IsNumber(file.k)
          \/ file.buckets.t = "undef" THEN NULL
  ELSE IF file.buckets.t = "null" THEN NULL
  ELSE file

\* ensureSimilarIndexLoaded: the value of simIndex after the call
ensureSimilarIndexLoaded(cache, file) ==
  IF cache # NULL THEN cache
  ELSE IF file.kind = "absent" THEN NULL
  ELSE IF file.kind = "garbage" THEN NULL
  ELSE IF \/ ~IsNumber(file.version)
          \/ ~IsNumber(file.k)
          \/ file.buckets.t = "undef" THEN NULL
  ELSE IF file.buckets.t = "null" THEN NULL
  ELSE file

\* what ort.InferenceSession.create resolves to for a loadable file
SessionOf(file) == [inputs |-> file]

\* session.inputNames: the one input of a legacy model, or the named inputs
\* of the residual model
inputNames(sess) ==
  IF sess.inputs = "single" THEN <<"input">>
  ELSE <<"service_type", "timeframe", "channel", "postcode_area",
         "customer_interaction_channel", "qty_sum", "line_count",
         "customer_satisfaction", "customer_total_purchases">>

\* one attempt of createSession succeeds exactly on a loadable model file
Loadable(file) == file \notin {"absent", "corrupt"}

\* createSession tries three execution-provider settings in turn
CreateAttempts == 3

----------------------------------------------------------------------------
(* Estimators *)

THROW == [throw |-> TRUE]

\* mutant of bucketFallback: without a usable bucket the estimator abstains
bucketFallbackAbstains(stats) == NULL

\* the last line of bucketResidual: global_mean if finite, else null
bucketFallback(stats) == IF IsFinite(stats.global_mean) THEN stats.global_mean ELSE NULL

\* mutant of bucketResidual: shrink_mean is trusted only from 3 observations on
bucketResidualMinN(stats, f) ==
  IF stats = NULL THEN NULL
  ELSE LET key == bucketKey(f)
           has == key \in DOMAIN stats.buckets.m
       IN  IF has /\ IsFinite(stats.buckets.m[key].shrink_mean)
                  /\ ~RLess(stats.buckets.m[key].n, Num(3))
             THEN stats.buckets.m[key].shrink_mean
           ELSE bucketFallback(stats)

\* bucketResidual, given the cache as ensureBucketStatsLoaded left it
bucketResidual(stats, f) ==
  IF stats = NULL THEN NULL
  ELSE LET key == bucketKey(f)
           has == key \in DOMAIN stats.buckets.m
       IN  IF has /\ IsFinite(stats.buckets.m[key].shrink_mean)
             THEN stats.buckets.m[key].shrink_mean
           ELSE bucketFallback(stats)

Min(a, b) == IF a < b THEN a ELSE b

\* Math.sqrt on the perfect squares the modelled points produce
Sqrt(n) == CHOOSE r \in 0..n : r * r = n

\* the {d, r} pair knnResidual maps a point to (d kept squared for ordering)
DistOf(pt, Q, L) ==
  [d2 |-> (pt.q - Q) * (pt.q - Q) + (pt.l - L) * (pt.l - L), r |-> pt.r]

\* insert x after every element that is not farther: Array.prototype.sort is stable
RECURSIVE InsertByDist(_, _)
InsertByDist(x, s) ==
  IF s = <<>> THEN <<x>>
  ELSE IF x.d2 < Head(s).d2 THEN <<x>> \o s
  ELSE <<Head(s)>> \o InsertByDist(x, Tail(s))

RECURSIVE SortByDist(_)
SortByDist(s) ==
  IF s = <<>> THEN <<>>
  ELSE InsertByDist(s[Len(s)], SortByDist(SubSeq(s, 1, Len(s) - 1)))

\* truncation toward zero, as Array.prototype.slice converts its bound
Trunc(x) == IF x.num >= 0 THEN x.num \div x.den ELSE -((-x.num) \div x.den)

\* mutant of ConfiguredK: the configuration is ignored, one neighbor is used
ConfiguredKOne(k) == Num(1)

\* simIndex.k || 5
ConfiguredK(k) ==
  IF "nan" \in DOMAIN k THEN Num(5)
  ELSE IF "inf" \in DOMAIN k THEN k
  ELSE IF k.num = 0 THEN Num(5)
  ELSE k

\* mutant of TopK: every point of the bucket is kept
TopKAll(sorted, kcfg) == sorted

\* Array.prototype.slice(0, k) with k = Math.min(simIndex.k || 5, pts.length)
TopK(sorted, kcfg) ==
  LET n == Len(sorted)
      c == ConfiguredK(kcfg)
      k == IF "inf" \in DOMAIN c THEN n ELSE Min(Trunc(c), n)
  IN  IF k >= 0 THEN SubSeq(sorted, 1, k)
      ELSE SubSeq(sorted, 1, IF n + k > 0 THEN n + k ELSE 0)

\* mutant of KnnWeight: an exact match weighs 1
KnnWeightUnit(x) == IF x.d2 = 0 THEN Num(1) ELSE Rat(1, Sqrt(x.d2))

\* the weight of one neighbor: 1e6 on an exact match, else 1/d
KnnWeight(x) == IF x.d2 = 0 THEN Num(1000000) ELSE Rat(1, Sqrt(x.d2))

\* knnResidual, given the cache as ensureSimilarIndexLoaded left it;
\* THROW when destructuring a point that is not an array raises TypeError
knnResidual(index, f) ==
  IF index = NULL THEN NULL
  ELSE LET key == bucketKey(f)
       IN  IF key \notin DOMAIN index.buckets.m THEN NULL
           ELSE LET pts == index.buckets.m[key]
                IN  IF Len(pts) = 0 THEN NULL
                    ELSE IF \E i \in 1..Len(pts) : pts[i] = NULL THEN THROW
                    ELSE LET top == TopK(SortByDist([i \in 1..Len(pts) |->
                                           DistOf(pts[i], f.qty_sum, f.line_count)]),
                                         index.k)
                             num == RSum([i \in 1..Len(top) |->
                                           RMul(KnnWeight(top[i]), Num(top[i].r))])
                             den == RSum([i \in 1..Len(top) |-> KnnWeight(top[i])])
                         IN  IF ~RLess(Num(0), den) THEN NULL
                             ELSE RDiv(num, den)

\* mutant of simIndexAfterKnn: the points of the bucket are sorted in place
simIndexAfterKnnSorted(index, f) ==
  IF index = NULL THEN index
  ELSE LET key == bucketKey(f)
       IN  IF key \notin DOMAIN index.buckets.m THEN index
           ELSE LET pts == index.buckets.m[key]
                IN  IF \E i \in 1..Len(pts) : pts[i] = NULL THEN index
                    ELSE LET sorted == SortByDist([i \in 1..Len(pts) |->
                                         [d2 |-> DistOf(pts[i], f.qty_sum, f.line_count).d2,
                                          pt |-> pts[i]]])
                         IN  [index EXCEPT !.buckets.m[key] =
                                [i \in 1..Len(pts) |-> sorted[i].pt]]

\* the cached similarity index once knnResidual has run on it: pts.map(...)
\* builds a new array, which is what sort and slice work on
simIndexAfterKnn(index, f) == index

\* what session.run can do: resolve with a first output value, resolve
\* without one, or reject
InferenceOutcomes == {Num(-4), Num(6), NAN, UNDEF, THROW}

\* onnxResidual after session.run settled with outcome out; cached is the
\* value of the session variable at that moment
onnxOutput(out, cached) ==
  IF out = THROW THEN NULL                \* catch
  ELSE IF cached = NULL THEN NULL         \* session.outputNames on null throws, caught
  ELSE IF out = UNDEF THEN NULL           \* if (!data) return null
  ELSE IF ~IsFinite(out) THEN NULL
  ELSE Max0(out)

\* the {v, w} pairs predictResidual collects from the estimators that answered
BlendParts(b, k, o, W) ==
  (IF b # NULL THEN <<[v |-> b, w |-> W.wb]>> ELSE <<>>)
  \o (IF k # NULL THEN <<[v |-> k, w |-> W.wk]>> ELSE <<>>)
  \o (IF o # NULL THEN <<[v |-> o, w |-> W.wo]>> ELSE <<>>)

\* mutant of Renormalized: the configured weights, not rescaled
RenormalizedUnscaled(parts) == [i \in 1..Len(parts) |-> parts[i].w]

\* p.w / wsum for every part, with wsum = (sum of the parts' weights) || 1
Renormalized(parts) ==
  LET w0   == RSum([i \in 1..Len(parts) |-> parts[i].w])
      wsum == IF RIsZero(w0) THEN Num(1) ELSE w0
  IN  [i \in 1..Len(parts) |-> RDiv(parts[i].w, wsum)]

\* mutant of Blend: the blended value is returned without Math.max(0, .)
BlendUnclamped(b, k, o, W) ==
  LET parts   == BlendParts(b, k, o, W)
      ws      == Renormalized(parts)
  IN  IF Len(parts) = 0 THEN NULL
      ELSE RSum([i \in 1..Len(parts) |-> RMul(parts[i].v, ws[i])])

\* the blend at the end of predictResidual
Blend(b, k, o, W) ==
  LET parts   == BlendParts(b, k, o, W)
      ws      == Renormalized(parts)
      blended == RSum([i \in 1..Len(parts) |-> RMul(parts[i].v, ws[i])])
  IN  IF Len(parts) = 0 THEN NULL ELSE Max0(blended)

----------------------------------------------------------------------------
(* Quote pricing (pricing.model.ts): the caller of predictResidual.  Money  *)
(* is an exact rational; free text is a sequence of one-character strings.  *)

\* a JavaScript string value given by its characters
Text(chars) == [text |-> chars]

\* const COEF
COEF ==
  [unitMaterial |-> Num(25), labourPerLine |-> Num(35), baseCost |-> Num(40),
   overheadPct |-> Rat(8, 100), serviceFeePct |-> Rat(6, 100),
   asapMult |-> Rat(115, 100), midMult |-> Rat(105, 100), longMult |-> Num(1),
   transportPerArea |-> Num(18), aiUplift |-> Rat(7, 100),
   satisfactionAdjPerStar |-> Rat(2, 100), loyaltyAddOn |-> Rat(3, 100),
   vatPercent |-> Num(20)]

\* -Infinity
NINF == [ninf |-> TRUE]

\* the sign of a number that is not NaN
Sign(x) ==
  IF x = INF THEN 1 ELSE IF x = NINF THEN -1
  ELSE IF x.num > 0 THEN 1 ELSE IF x.num < 0 THEN -1 ELSE 0

\* x + y in IEEE arithmetic, exact on finite values
XAdd(x, y) ==
  IF x = NAN \/ y = NAN THEN NAN
  ELSE IF IsFinite(x) /\ IsFinite(y) THEN RAdd(x, y)
  ELSE IF IsFinite(x) THEN y
  ELSE IF IsFinite(y) \/ x = y THEN x
  ELSE NAN

\* x * y; common factors of two rationals are cancelled before multiplying
XMul(x, y) ==
  IF x = NAN \/ y = NAN THEN NAN
  ELSE IF IsFinite(x) /\ IsFinite(y)
    THEN LET g == GCD(Abs(x.num), y.den)
             h == GCD(Abs(y.num), x.den)
         IN  Rat((x.num \div g) * (y.num \div h), (x.den \div h) * (y.den \div g))
  ELSE IF Sign(x) * Sign(y) = 0 THEN NAN
  ELSE IF Sign(x) * Sign(y) > 0 THEN INF ELSE NINF

WhiteSpace == {" ", "\t"}

\* the letters a-z and A-Z
Alphabet ==
  [lower |-> <<"a", "b", "c", "d", "e", "f", "g", "h", "i", "j", "k", "l", "m",
               "n", "o", "p", "q", "r", "s", "t", "u", "v", "w", "x", "y", "z">>,
   upper |-> <<"A", "B", "C", "D", "E", "F", "G", "H", "I", "J", "K", "L", "M",
               "N", "O", "P", "Q", "R", "S", "T", "U", "V", "W", "X", "Y", "Z">>]

\* String.prototype.trim()
RECURSIVE TrimSpace(_)
TrimSpace(str) ==
  IF str # <<>> /\ Head(str) \in WhiteSpace THEN TrimSpace(Tail(str))
  ELSE IF str # <<>> /\ str[Len(str)] \in WhiteSpace
    THEN TrimSpace(SubSeq(str, 1, Len(str) - 1))
  ELSE str

\* String.prototype.toUpperCase()
ToUpperCase(str) ==
  [i \in 1..Len(str) |->
     IF \E j \in 1..26 : Alphabet.lower[j] = str[i]
       THEN Alphabet.upper[CHOOSE j \in 1..26 : Alphabet.lower[j] = str[i]]
     ELSE str[i]]

\* str.split(/\s+/)[0]: the characters before the first run of white space
FirstField(str) ==
  IF \A i \in 1..Len(str) : str[i] \notin WhiteSpace THEN str
  ELSE LET i == CHOOSE j \in 1..Len(str) :
                  str[j] \in WhiteSpace /\ \A h \in 1..(j - 1) : str[h] \notin WhiteSpace
       IN  SubSeq(str, 1, i - 1)

\* function toArea(pc): the post code is undefined, null or a string
toArea(postcode) ==
  IF postcode = UNDEF \/ postcode = NULL \/ postcode = Text(<<>>)
    THEN <<>>                                              \* if (!pc) return ""
  ELSE LET s  == ToUpperCase(TrimSpace(postcode.text))
           sp == FirstField(s)
       IN  IF sp # <<>> THEN sp ELSE SubSeq(s, 1, Min(3, Len(s)))   \* sp || s.slice(0, 3)

\* the characters of a string joined into one string value
RECURSIVE JoinChars(_)
JoinChars(str) == IF str = <<>> THEN "" ELSE Head(str) \o JoinChars(Tail(str))

\* Number(v) for undefined, null, a number or a string
ToNumber(v) ==
  IF v = UNDEF THEN NAN
  ELSE IF v = NULL THEN Num(0)
  ELSE IF IsNumber(v) \/ v = NINF THEN v
  ELSE StringToNumber(TrimSpace(v.text))

\* Number(v) || 0
NumberOrZero(v) ==
  LET n == ToNumber(v) IN IF n = NAN \/ (IsFinite(n) /\ RIsZero(n)) THEN Num(0) ELSE n

\* function qtyFromItems: items.reduce((s, it) => s + (Number(it.quantity) || 0), 0)
RECURSIVE qtyFromItems(_)
qtyFromItems(items) ==
  IF items = <<>> THEN Num(0)
  ELSE XAdd(qtyFromItems(SubSeq(items, 1, Len(items) - 1)),
            NumberOrZero(items[Len(items)].quantity))

\* function lineCount: Math.max(1, items.length || 0)
lineCount(items) == IF Len(items) > 1 THEN Len(items) ELSE 1

\* function timeframeMult
timeframeMult(tf) ==
  IF tf = "asap" THEN COEF.asapMult
  ELSE IF tf = "3_6_months" THEN COEF.midMult
  ELSE COEF.longMult

\* area.replace(/^[A-Z]+/i, ""): the leading letters removed
RECURSIVE StripLeadingLetters(_)
StripLeadingLetters(str) ==
  IF str # <<>> /\ \E j \in 1..26 : Head(str) \in {Alphabet.lower[j], Alphabet.upper[j]}
    THEN StripLeadingLetters(Tail(str))
  ELSE str

\* function roughAreaDistance
roughAreaDistance(area) ==
  IF area = <<>> THEN 1
  ELSE LET n == Len(StripLeadingLetters(area))
           d == IF n = 0 THEN 1 ELSE n                     \* digits.length || 1
       IN  IF Min(3, d) > 1 THEN Min(3, d) ELSE 1

\* function r2: Math.round((Number(n) || 0) * 100) / 100
r2(n) ==
  LET x == NumberOrZero(n)
      y == RAdd(XMul(x, Num(100)), Rat(1, 2))
  IN  IF IsFinite(x) THEN Rat(y.num \div y.den, 100) ELSE x   \* Math.round: floor(. + 1/2)

\* aiSuggestCosts, step 1: the deterministic baseline of the input
baselineSubtotal(input) ==
  LET items     == input.items
      material  == XMul(qtyFromItems(items), COEF.unitMaterial)
      labour    == RMul(Num(lineCount(items)), COEF.labourPerLine)
      overhead  == XMul(XAdd(material, labour), COEF.overheadPct)
      timeline  == XMul(XAdd(material, labour),
                        RAdd(timeframeMult(input.timeframe), Num(-1)))
      transport == RMul(Num(roughAreaDistance(toArea(input.site_postcode))),
                        COEF.transportPerArea)
      preFee    == XAdd(XAdd(XAdd(XAdd(XAdd(COEF.baseCost, material), labour), overhead),
                             timeline), transport)
  IN  XAdd(preFee, XMul(preFee, COEF.serviceFeePct))

\* aiSuggestCosts, step 2: the ResidualFeatures record handed to
\* predictResidual; a whole qty_sum is written as an integer, as in the
\* records of Features
aiSuggestFeatures(input) ==
  LET qSum     == qtyFromItems(input.items)
      material == XMul(qSum, COEF.unitMaterial)
      ratio    == IF IsFinite(material) THEN RDiv(material, COEF.unitMaterial)
                  ELSE material                            \* material / COEF.unitMaterial
      guard    == IF ratio = NAN THEN NAN
                  ELSE IF Sign(ratio) < 0 THEN Num(0) ELSE ratio      \* Math.max(..., 0)
      falsy    == qSum = NAN \/ (IsFinite(qSum) /\ RIsZero(qSum))
      qty      == IF falsy THEN guard ELSE qSum            \* qSum || Math.max(..., 0)
  IN  [service_type |-> input.service_type, timeframe |-> input.timeframe,
       channel |-> input.channel,
       postcode_area |-> JoinChars(toArea(input.site_postcode)),
       qty_sum |-> IF IsFinite(qty) /\ qty.den = 1 THEN qty.num ELSE qty,
       line_count |-> lineCount(input.items)]

\* aiSuggestCosts, step 3: the uplift used when the model gave no number
fallbackUplift(input) ==
  LET Field(name, dflt) ==                                 \* input.customer?.name ?? dflt
        IF input.customer = NULL THEN dflt
        ELSE IF input.customer[name] \in {UNDEF, NULL} THEN dflt
        ELSE input.customer[name]
      sat       == ToNumber(Field("satisfaction", Num(3)))
      purchases == ToNumber(Field("total_purchases", Num(0)))
      starsAdj  == XAdd(Num(1), XMul(COEF.satisfactionAdjPerStar, XAdd(sat, Num(-3))))
      loyalty   == IF IsFinite(purchases) /\ ~RLess(purchases, Num(3))
                     THEN Num(1) ELSE Num(0)               \* purchases >= 3 ? 1 : 0
  IN  XMul(XMul(XMul(baselineSubtotal(input), COEF.aiUplift), starsAdj),
           RAdd(Num(1), RMul(COEF.loyaltyAddOn, loyalty)))

\* aiSuggestCosts after predictResidual resolved with addon: ai_pred_cost
aiPredCost(input, addon) ==
  IF IsFinite(addon) THEN r2(addon) ELSE r2(fallbackUplift(input))

----------------------------------------------------------------------------
(* State machine.  One step is one uninterrupted run of JavaScript between  *)
(* two suspension points of the event loop.                                 *)

\* no caller awaits the call: its result is the response
NoCaller == [nocaller |-> TRUE]

\* the locals of one request: fn is the runtime function that called
\* ensureModelLoaded, caller the frame that awaits fn, addon the value fn
\* resolved with
IdleLoc == [fn |-> "none", caller |-> NoCaller, b |-> NULL, k |-> NULL, attempt |-> 0,
            ret |-> FALSE, cand |-> NULL, stale |-> FALSE, addon |-> NULL]

NoHealth == [none |-> TRUE]

\* mutant of modelHealth: the input style is reported as named whatever the session
modelHealthNamed(sess, sim, stats) ==
  [onnx_loaded |-> sess # NULL, similar_loaded |-> sim # NULL, bucket_loaded |-> stats # NULL,
   inputStyle |-> [style |-> "input-named",
                   n |-> IF sess = NULL THEN 0 ELSE Len(inputNames(sess))]]

\* modelHealth(): the three loaded flags and the input style of the snapshot
\* ("single-float-vector", or "<n>-input-named" with n = 0 without session)
modelHealth(sess, sim, stats) ==
  [onnx_loaded |-> sess # NULL, similar_loaded |-> sim # NULL, bucket_loaded |-> stats # NULL,
   inputStyle |-> IF sess # NULL /\ Len(inputNames(sess)) = 1
                    THEN [style |-> "single-float-vector", n |-> 1]
                  ELSE [style |-> "input-named",
                        n |-> IF sess = NULL THEN 0 ELSE Len(inputNames(sess))]]

\* session.run was not reached
NoRun == [norun |-> TRUE]

\* a response: st says what completed ("returned" or "thrown" for a
\* predictResidual call, "base" for a predictBase call, "health" and "reset"
\* for the two routes); out is how session.run settled in that call; first records that
\* no other predictResidual call had completed since the last reset
Completed(st, b, k, out, o, result, health, first) ==
  [st |-> st, b |-> b, k |-> k, out |-> out, o |-> o, result |-> result,
   health |-> health, first |-> first]

NoResp == Completed("none", NULL, NULL, NoRun, NULL, NULL, NoHealth, FALSE)

\* the quote ids of the table
QuoteIds == 1..NumQuotes

Init ==
  /\ blendEnv \in BlendEnvs
  /\ onnxFile \in OnnxFiles
  /\ simFile \in SimFiles
  /\ bucketFile \in BucketFiles
  /\ session = NULL
  /\ simIndex = NULL
  /\ bucketStats = NULL
  /\ pc = [p \in Procs |-> "idle"]
  /\ loc = [p \in Procs |-> IdleLoc]
  /\ resp = NoResp
  /\ failed = {}
  /\ fresh = FALSE
  /\ quotes = [id \in QuoteIds |-> "none"]

\* mutant of Finish: reading the output of a session that was reset during
\* session.run raises out of predictResidual
FinishUncaught(p, out, o) ==
  LET result == Blend(loc[p].b, loc[p].k, o, BLEND_WEIGHTS(blendEnv))
      raced  == session = NULL /\ out \notin {NoRun, THROW}
  IN  /\ resp' = IF raced
                   THEN Completed("thrown", loc[p].b, loc[p].k, out, THROW, THROW, NoHealth,
                                  fresh)
                 ELSE Completed("returned", loc[p].b, loc[p].k, out, o, result, NoHealth,
                                fresh)
      /\ IF loc[p].caller = NoCaller \/ raced
           THEN /\ pc' = [pc EXCEPT ![p] = "idle"]
                /\ loc' = [loc EXCEPT ![p] = IdleLoc]
         ELSE /\ pc' = [pc EXCEPT ![p] = "resolved"]
              /\ loc' = [loc EXCEPT ![p] = [IdleLoc EXCEPT !.caller = loc[p].caller,
                                                           !.addon = result]]
      /\ fresh' = FALSE

\* the end of predictResidual: blend the three estimates and resolve; the
\* awaiting caller, if any, resumes in a later step
Finish(p, out, o) ==
  LET result == Blend(loc[p].b, loc[p].k, o, BLEND_WEIGHTS(blendEnv))
  IN  /\ resp' = Completed("returned", loc[p].b, loc[p].k, out, o, result, NoHealth, fresh)
      /\ IF loc[p].caller = NoCaller
           THEN /\ pc' = [pc EXCEPT ![p] = "idle"]
                /\ loc' = [loc EXCEPT ![p] = IdleLoc]
         ELSE /\ pc' = [pc EXCEPT ![p] = "resolved"]
              /\ loc' = [loc EXCEPT ![p] = [IdleLoc EXCEPT !.caller = loc[p].caller,
                                                           !.addon = result]]
      /\ fresh' = FALSE

\* mutant of ensureModelLoaded: a failed or missing load is remembered and
\* short-circuits every later call until the reset
ensureModelLoadedSticky(p, fn, caller, b, k, fl) ==
  IF session # NULL
    THEN /\ pc' = [pc EXCEPT ![p] = "ensured"]
         /\ loc' = [loc EXCEPT ![p] = [IdleLoc EXCEPT !.fn = fn, !.caller = caller, !.b = b, !.k = k, !.ret = TRUE]]
         /\ failed' = fl
  ELSE IF onnxFile = "absent" \/ "onnx" \in failed
    THEN /\ pc' = [pc EXCEPT ![p] = "ensured"]
         /\ loc' = [loc EXCEPT ![p] = [IdleLoc EXCEPT !.fn = fn, !.caller = caller, !.b = b, !.k = k, !.ret = FALSE]]
         /\ failed' = fl \cup {"onnx"}
  ELSE /\ pc' = [pc EXCEPT ![p] = "creating"]
       /\ loc' = [loc EXCEPT ![p] = [IdleLoc EXCEPT !.fn = fn, !.caller = caller, !.b = b, !.k = k, !.attempt = 1]]
       /\ failed' = fl

\* ensureModelLoaded up to its first suspension, entered by a call of fn with
\* locals b and k: cached, file not found, or createSession started
ensureModelLoaded(p, fn, caller, b, k, fl) ==
  IF session # NULL
    THEN /\ pc' = [pc EXCEPT ![p] = "ensured"]
         /\ loc' = [loc EXCEPT ![p] = [IdleLoc EXCEPT !.fn = fn, !.caller = caller, !.b = b, !.k = k, !.ret = TRUE]]
         /\ failed' = fl
  ELSE IF onnxFile = "absent"
    THEN /\ pc' = [pc EXCEPT ![p] = "ensured"]
         /\ loc' = [loc EXCEPT ![p] = [IdleLoc EXCEPT !.fn = fn, !.caller = caller, !.b = b, !.k = k, !.ret = FALSE]]
         /\ failed' = fl \cup {"onnx"}
  ELSE /\ pc' = [pc EXCEPT ![p] = "creating"]
       /\ loc' = [loc EXCEPT ![p] = [IdleLoc EXCEPT !.fn = fn, !.caller = caller, !.b = b, !.k = k, !.attempt = 1]]
       /\ failed' = fl

\* predictResidual(f) up to its first suspension, awaited by caller:
\* bucketResidual, knnResidual, then onnxResidual into ensureModelLoaded
predictResidual(p, f, caller) ==
  /\ pc[p] = "idle"
  /\ LET stats == ensureBucketStatsLoaded(bucketStats, bucketFile)
         index == ensureSimilarIndexLoaded(simIndex, simFile)
         b     == bucketResidual(stats, f)
         k     == knnResidual(index, f)
         fl    == failed \cup (IF stats = NULL THEN {"bucket"} ELSE {})
                         \cup (IF index = NULL THEN {"sim"} ELSE {})
     IN  /\ bucketStats' = stats
         /\ simIndex' = simIndexAfterKnn(index, f)
         /\ IF k = THROW
              THEN /\ resp' = Completed("thrown", b, THROW, NoRun, NULL, THROW, NoHealth, fresh)
                   /\ fresh' = FALSE
                   /\ failed' = fl
                   /\ UNCHANGED <<pc, loc>>
            ELSE /\ ensureModelLoaded(p, "predictResidual", caller, b, k, fl)
                 /\ resp' = NoResp
                 /\ UNCHANGED fresh
  /\ UNCHANGED <<quotes, blendEnv, onnxFile, simFile, bucketFile, session>>

\* a predictResidual(f) call whose result is the response
Call(p, f) == predictResidual(p, f, NoCaller)

\* createSession: one ort.InferenceSession.create settles; a rejection moves
\* on to the next execution-provider setting, the third rejection propagates
CreateAttempt(p) ==
  /\ pc[p] = "creating"
  /\ IF Loadable(onnxFile)
       THEN /\ pc' = [pc EXCEPT ![p] = "created"]
            /\ loc' = [loc EXCEPT ![p].cand = SessionOf(onnxFile)]
     ELSE IF loc[p].attempt < CreateAttempts
       THEN /\ loc' = [loc EXCEPT ![p].attempt = @ + 1]
            /\ UNCHANGED pc
     ELSE /\ pc' = [pc EXCEPT ![p] = "createFailed"]
          /\ UNCHANGED loc
  /\ resp' = NoResp
  /\ UNCHANGED <<quotes, blendEnv, onnxFile, simFile, bucketFile, session, simIndex, bucketStats,
                 failed, fresh>>

\* ensureModelLoaded resumes after createSession: install the session, or the catch
LoadInstall(p) ==
  /\ pc[p] \in {"created", "createFailed"}
  /\ IF pc[p] = "created"
       THEN /\ session' = loc[p].cand
            /\ loc' = [loc EXCEPT ![p].ret = TRUE, ![p].stale = FALSE, ![p].attempt = 0]
            /\ UNCHANGED failed
     ELSE /\ session' = NULL
          /\ loc' = [loc EXCEPT ![p].ret = FALSE, ![p].stale = FALSE, ![p].attempt = 0]
          /\ failed' = failed \cup {"onnx"}
  /\ pc' = [pc EXCEPT ![p] = "ensured"]
  /\ resp' = NoResp
  /\ UNCHANGED <<quotes, blendEnv, onnxFile, simFile, bucketFile, simIndex, bucketStats, fresh>>

\* mutant of AfterEnsure: the bucket estimate is computed again from the
\* cache as it is when the call resumes
AfterEnsureRereads(p) ==
  /\ pc[p] = "ensured"
  /\ loc[p].fn = "predictResidual"
  /\ LET b == bucketResidual(bucketStats, QuoteFeatures)
     IN  IF ~loc[p].ret \/ session = NULL
           THEN /\ resp' = Completed("returned", b, loc[p].k, NoRun, NULL,
                                     Blend(b, loc[p].k, NULL, BLEND_WEIGHTS(blendEnv)),
                                     NoHealth, fresh)
                /\ pc' = [pc EXCEPT ![p] = "idle"]
                /\ loc' = [loc EXCEPT ![p] = IdleLoc]
                /\ fresh' = FALSE
         ELSE /\ pc' = [pc EXCEPT ![p] = "running"]
              /\ loc' = [loc EXCEPT ![p].cand = NULL, ![p].ret = FALSE, ![p].b = b]
              /\ resp' = NoResp
              /\ UNCHANGED fresh
  /\ UNCHANGED <<quotes, blendEnv, onnxFile, simFile, bucketFile, session, simIndex, bucketStats,
                 failed>>

\* onnxResidual resumes after ensureModelLoaded: abstain, or start session.run
AfterEnsure(p) ==
  /\ pc[p] = "ensured"
  /\ loc[p].fn = "predictResidual"
  /\ IF ~loc[p].ret \/ session = NULL
       THEN Finish(p, NoRun, NULL)
     ELSE /\ pc' = [pc EXCEPT ![p] = "running"]
          /\ loc' = [loc EXCEPT ![p].cand = NULL, ![p].ret = FALSE]
          /\ resp' = NoResp
          /\ UNCHANGED fresh
  /\ UNCHANGED <<quotes, blendEnv, onnxFile, simFile, bucketFile, session, simIndex, bucketStats,
                 failed>>

\* mutant of RunSettle: a rejected session.run evicts the cached session
RunSettleEvict(p, out) ==
  /\ pc[p] = "running"
  /\ loc[p].fn = "predictResidual"
  /\ Finish(p, out, onnxOutput(out, session))
  /\ session' = IF out = THROW THEN NULL ELSE session
  /\ UNCHANGED <<quotes, blendEnv, onnxFile, simFile, bucketFile, simIndex, bucketStats, failed>>

\* onnxResidual resumes after session.run, then predictResidual blends
RunSettle(p, out) ==
  /\ pc[p] = "running"
  /\ loc[p].fn = "predictResidual"
  /\ Finish(p, out, onnxOutput(out, session))
  /\ UNCHANGED <<quotes, blendEnv, onnxFile, simFile, bucketFile, session, simIndex, bucketStats,
                 failed>>

\* predictBase after session.run settled with outcome out: the raw value,
\* not clamped
baseOutput(out, cached) ==
  IF out = THROW THEN NULL                \* catch
  ELSE IF cached = NULL THEN NULL         \* session.outputNames on null throws, caught
  ELSE IF out = UNDEF THEN NULL           \* if (!data) return null
  ELSE IF ~IsFinite(out) THEN NULL
  ELSE out

\* the end of predictBase
FinishBase(p, out, o) ==
  /\ resp' = Completed("base", NULL, NULL, out, o, o, NoHealth, FALSE)
  /\ pc' = [pc EXCEPT ![p] = "idle"]
  /\ loc' = [loc EXCEPT ![p] = IdleLoc]

\* predictBase(featuresTensor) up to its first suspension, in ensureModelLoaded
PredictBase(p) ==
  /\ pc[p] = "idle"
  /\ ensureModelLoaded(p, "predictBase", NoCaller, NULL, NULL, failed)
  /\ resp' = NoResp
  /\ UNCHANGED <<quotes, blendEnv, onnxFile, simFile, bucketFile, session, simIndex, bucketStats,
                 fresh>>

\* predictBase resumes after ensureModelLoaded: abstain without a session or
\* when the model does not declare exactly one input, else start session.run
BaseAfterEnsure(p) ==
  /\ pc[p] = "ensured"
  /\ loc[p].fn = "predictBase"
  /\ IF ~loc[p].ret \/ session = NULL
       THEN FinishBase(p, NoRun, NULL)
     ELSE IF Len(inputNames(session)) # 1
       THEN FinishBase(p, NoRun, NULL)
     ELSE /\ pc' = [pc EXCEPT ![p] = "running"]
          /\ loc' = [loc EXCEPT ![p].cand = NULL, ![p].ret = FALSE]
          /\ resp' = NoResp
  /\ UNCHANGED <<quotes, blendEnv, onnxFile, simFile, bucketFile, session, simIndex, bucketStats,
                 failed, fresh>>

\* predictBase resumes after session.run
BaseRunSettle(p, out) ==
  /\ pc[p] = "running"
  /\ loc[p].fn = "predictBase"
  /\ FinishBase(p, out, baseOutput(out, session))
  /\ UNCHANGED <<quotes, blendEnv, onnxFile, simFile, bucketFile, session, simIndex, bucketStats,
                 failed, fresh>>

\* GET /model/health up to its first suspension, in ensureModelLoaded
HealthRoute(p) ==
  /\ pc[p] = "idle"
  /\ ensureModelLoaded(p, "health", NoCaller, NULL, NULL, failed)
  /\ resp' = NoResp
  /\ UNCHANGED <<quotes, blendEnv, onnxFile, simFile, bucketFile, session, simIndex, bucketStats,
                 fresh>>

\* GET /model/health resumes after ensureModelLoaded and answers modelHealth()
HealthRespond(p) ==
  /\ pc[p] = "ensured"
  /\ loc[p].fn = "health"
  /\ resp' = Completed("health", NULL, NULL, NoRun, NULL, NULL,
                       modelHealth(session, simIndex, bucketStats), FALSE)
  /\ pc' = [pc EXCEPT ![p] = "idle"]
  /\ loc' = [loc EXCEPT ![p] = IdleLoc]
  /\ UNCHANGED <<quotes, blendEnv, onnxFile, simFile, bucketFile, session, simIndex, bucketStats,
                 failed, fresh>>

\* aiSuggestCosts(input) up to its first suspension, inside predictResidual;
\* its frame, input and features, awaits the value
AiSuggest(p, input) ==
  LET features == aiSuggestFeatures(input)
  IN  predictResidual(p, features,
                      [fn |-> "aiSuggestCosts", input |-> input, features |-> features])

\* aiSuggestCosts resumes with the value of predictResidual and returns its
\* result; the response records that value (o) and ai_pred_cost (result)
AiSuggestResume(p) ==
  /\ pc[p] = "resolved"
  /\ loc[p].caller.fn = "aiSuggestCosts"
  /\ resp' = Completed("priced", NULL, NULL, NoRun, loc[p].addon,
                       aiPredCost(loc[p].caller.input, loc[p].addon), NoHealth, FALSE)
  /\ pc' = [pc EXCEPT ![p] = "idle"]
  /\ loc' = [loc EXCEPT ![p] = IdleLoc]
  /\ UNCHANGED <<quotes, blendEnv, onnxFile, simFile, bucketFile, session, simIndex, bucketStats,
                 failed, fresh>>

\* POST /model/warm up to its first suspension, inside predictResidual
WarmRoute(p) ==
  predictResidual(p, WarmFeatures, [fn |-> "warm", features |-> WarmFeatures])

\* POST /model/warm resumes after predictResidual and answers modelHealth()
WarmRespond(p) ==
  /\ pc[p] = "resolved"
  /\ loc[p].caller.fn = "warm"
  /\ resp' = Completed("warm", NULL, NULL, NoRun, loc[p].addon, NULL,
                       modelHealth(session, simIndex, bucketStats), FALSE)
  /\ pc' = [pc EXCEPT ![p] = "idle"]
  /\ loc' = [loc EXCEPT ![p] = IdleLoc]
  /\ UNCHANGED <<quotes, blendEnv, onnxFile, simFile, bucketFile, session, simIndex, bucketStats,
                 failed, fresh>>

\* mutant of resetModelCaches: the similarity index is left in place
resetModelCachesKeepIndex(caches) ==
  [session |-> NULL, simIndex |-> caches.simIndex, bucketStats |-> NULL]

\* resetModelCaches(): the three caches after the call
resetModelCaches(caches) == [session |-> NULL, simIndex |-> NULL, bucketStats |-> NULL]

\* POST /model/reset: resetModelCaches(), then the health snapshot as response
Reset ==
  /\ LET c == resetModelCaches([session |-> session, simIndex |-> simIndex,
                                bucketStats |-> bucketStats])
     IN  /\ session' = c.session
         /\ simIndex' = c.simIndex
         /\ bucketStats' = c.bucketStats
         /\ resp' = Completed("reset", NULL, NULL, NoRun, NULL, NULL,
                              modelHealth(c.session, c.simIndex, c.bucketStats), FALSE)
  /\ failed' = {}
  /\ fresh' = TRUE
  /\ loc' = [p \in Procs |->
               IF pc[p] \in {"creating", "created", "createFailed"}
                 THEN [loc[p] EXCEPT !.stale = TRUE] ELSE loc[p]]
  /\ UNCHANGED <<quotes, blendEnv, onnxFile, simFile, bucketFile, pc>>

\* the artifact files are replaced or removed by the offline training step
SetOnnxFile(v) ==
  /\ v # onnxFile
  /\ onnxFile' = v
  /\ resp' = NoResp
  /\ UNCHANGED <<quotes, blendEnv, simFile, bucketFile, session, simIndex, bucketStats, pc, loc,
                 failed, fresh>>

SetSimFile(v) ==
  /\ v # simFile
  /\ simFile' = v
  /\ resp' = NoResp
  /\ UNCHANGED <<quotes, blendEnv, onnxFile, bucketFile, session, simIndex, bucketStats, pc, loc,
                 failed, fresh>>

SetBucketFile(v) ==
  /\ v # bucketFile
  /\ bucketFile' = v
  /\ resp' = NoResp
  /\ UNCHANGED <<quotes, blendEnv, onnxFile, simFile, session, simIndex, bucketStats, pc, loc,
                 failed, fresh>>

\* Spec: one request in flight at a time, every artifact file free to change
\* and the reset free to run at every suspension point of the request
Solo == {1}

Next ==
  \/ \E p \in Solo, f \in Features : Call(p, f)
  \/ \E p \in Solo : CreateAttempt(p)
  \/ \E p \in Solo : LoadInstall(p)
  \/ \E p \in Solo : AfterEnsure(p)
  \/ \E p \in Solo, out \in InferenceOutcomes : RunSettle(p, out)
  \/ Reset
  \/ \E v \in OnnxFiles : SetOnnxFile(v)
  \/ \E v \in SimFiles : SetSimFile(v)
  \/ \E v \in BucketFiles : SetBucketFile(v)

Spec == Init /\ [][Next]_vars

\* SpecConc: NumCallers requests in flight at once over fixed, valid JSON
\* artifacts and the default blend; the model file changes, the reset runs
InitConc ==
  /\ Init
  /\ blendEnv = DefaultBlend
  /\ simFile = SValid
  /\ bucketFile = BValid

NextConc ==
  \/ \E p \in Procs : Call(p, QuoteFeatures)
  \/ \E p \in Procs : CreateAttempt(p)
  \/ \E p \in Procs : LoadInstall(p)
  \/ \E p \in Procs : AfterEnsure(p)
  \/ \E p \in Procs, out \in {Num(6), THROW} : RunSettle(p, out)
  \/ Reset
  \/ \E v \in OnnxFiles : SetOnnxFile(v)

SpecConc == InitConc /\ [][NextConc]_vars


\* SpecSeq: the administrative use: requests one after the other, the reset
\* and the replacement of artifact files only between two requests
Quiet == \A p \in Procs : pc[p] = "idle"

NextSeq ==
  \/ \E p \in Solo, f \in Features : Call(p, f)
  \/ \E p \in Solo : CreateAttempt(p)
  \/ \E p \in Solo : LoadInstall(p)
  \/ \E p \in Solo : AfterEnsure(p)
  \/ \E p \in Solo, out \in InferenceOutcomes : RunSettle(p, out)
  \/ Quiet /\ Reset
  \/ Quiet /\ \E v \in OnnxFiles : SetOnnxFile(v)
  \/ Quiet /\ \E v \in SimFiles : SetSimFile(v)
  \/ Quiet /\ \E v \in BucketFiles : SetBucketFile(v)

SpecSeq == Init /\ [][NextSeq]_vars


\* SpecLoads: as SpecConc, without the reset
NextLoads ==
  \/ \E p \in Procs : Call(p, QuoteFeatures)
  \/ \E p \in Procs : CreateAttempt(p)
  \/ \E p \in Procs : LoadInstall(p)
  \/ \E p \in Procs : AfterEnsure(p)
  \/ \E p \in Procs, out \in {Num(6), THROW} : RunSettle(p, out)
  \/ \E v \in OnnxFiles : SetOnnxFile(v)

SpecLoads == InitConc /\ [][NextLoads]_vars


\* SpecJson: the two JSON artifacts in every modelled shape, no model file;
\* requests one after the other, the reset and the replacement of the files
\* between two requests
InitJson ==
  /\ blendEnv = DefaultBlend
  /\ onnxFile = "absent"
  /\ simFile \in JsonSimFiles
  /\ bucketFile \in JsonBucketFiles
  /\ session = NULL
  /\ simIndex = NULL
  /\ bucketStats = NULL
  /\ pc = [p \in Procs |-> "idle"]
  /\ loc = [p \in Procs |-> IdleLoc]
  /\ resp = NoResp
  /\ failed = {}
  /\ fresh = FALSE
  /\ quotes = [id \in QuoteIds |-> "none"]

NextJson ==
  \/ \E p \in Solo, f \in Features : Call(p, f)
  \/ \E p \in Solo : AfterEnsure(p)
  \/ Quiet /\ Reset
  \/ Quiet /\ \E v \in JsonSimFiles : SetSimFile(v)
  \/ Quiet /\ \E v \in JsonBucketFiles : SetBucketFile(v)

SpecJson == InitJson /\ [][NextJson]_vars

\* SpecKnn: knnResidual over every similarity index of KnnFiles: no bucket
\* stats and no model file, so that predictResidual returns the neighbor
\* estimate clamped at 0
InitKnn ==
  /\ blendEnv = DefaultBlend
  /\ onnxFile = "absent"
  /\ simFile \in KnnFiles
  /\ bucketFile = Absent
  /\ session = NULL
  /\ simIndex = NULL
  /\ bucketStats = NULL
  /\ pc = [p \in Procs |-> "idle"]
  /\ loc = [p \in Procs |-> IdleLoc]
  /\ resp = NoResp
  /\ failed = {}
  /\ fresh = FALSE
  /\ quotes = [id \in QuoteIds |-> "none"]

NextKnn ==
  \/ \E p \in Solo, f \in Features : Call(p, f)
  \/ \E p \in Solo : AfterEnsure(p)

SpecKnn == InitKnn /\ [][NextKnn]_vars

\* SpecBlend: the blend over every value of PRICING_BLEND in BlendStrings and
\* artifacts that make each subset of the estimators answer
InitBlend ==
  /\ blendEnv \in {ParseBlendEnv(env) : env \in BlendStrings}
  /\ onnxFile \in {"absent", "named"}
  /\ simFile \in {Absent, SValid, SNegative, SExactPair}
  /\ bucketFile \in {Absent, BValid, BEmpty, BSmallN, BNegative}
  /\ session = NULL
  /\ simIndex = NULL
  /\ bucketStats = NULL
  /\ pc = [p \in Procs |-> "idle"]
  /\ loc = [p \in Procs |-> IdleLoc]
  /\ resp = NoResp
  /\ failed = {}
  /\ fresh = FALSE
  /\ quotes = [id \in QuoteIds |-> "none"]

NextBlend ==
  \/ \E p \in Solo, f \in Features : Call(p, f)
  \/ \E p \in Solo : CreateAttempt(p)
  \/ \E p \in Solo : LoadInstall(p)
  \/ \E p \in Solo : AfterEnsure(p)
  \/ \E p \in Solo, out \in {Num(6), THROW} : RunSettle(p, out)

SpecBlend == InitBlend /\ [][NextBlend]_vars

\* SpecModel: one request at a time through either entry point, predictResidual
\* or predictBase, over fixed, valid JSON artifacts and the default blend; the
\* model file changes between all its forms, the reset runs at any time
InitModel ==
  /\ blendEnv = DefaultBlend
  /\ onnxFile \in ModelFiles
  /\ simFile = SValid
  /\ bucketFile = BValid
  /\ session = NULL
  /\ simIndex = NULL
  /\ bucketStats = NULL
  /\ pc = [p \in Procs |-> "idle"]
  /\ loc = [p \in Procs |-> IdleLoc]
  /\ resp = NoResp
  /\ failed = {}
  /\ fresh = FALSE
  /\ quotes = [id \in QuoteIds |-> "none"]

NextModel ==
  \/ \E p \in Solo : Call(p, QuoteFeatures)
  \/ \E p \in Solo : PredictBase(p)
  \/ \E p \in Solo : CreateAttempt(p)
  \/ \E p \in Solo : LoadInstall(p)
  \/ \E p \in Solo : AfterEnsure(p)
  \/ \E p \in Solo : BaseAfterEnsure(p)
  \/ \E p \in Solo, out \in InferenceOutcomes : RunSettle(p, out)
  \/ \E p \in Solo, out \in InferenceOutcomes : BaseRunSettle(p, out)
  \/ \E p \in Solo : HealthRoute(p)
  \/ \E p \in Solo : HealthRespond(p)
  \/ Reset
  \/ \E v \in ModelFiles : SetOnnxFile(v)

SpecModel == InitModel /\ [][NextModel]_vars

\* const ALLOWED, the values of the enum public.quote_status
ALLOWED == {"draft", "issued", "accepted", "declined", "expired", "converted"}

\* the answer of a quote route: the HTTP status code and the row's status
StatusResp(code, status) ==
  Completed("quote", NULL, NULL, NoRun, NULL, [code |-> code, status |-> status],
            NoHealth, FALSE)

\* createQuote: the header row is inserted with status "draft"
CreateQuote(id) ==
  /\ quotes[id] = "none"
  /\ quotes' = [quotes EXCEPT ![id] = "draft"]
  /\ resp' = StatusResp(201, "draft")
  /\ UNCHANGED <<blendEnv, onnxFile, simFile, bucketFile, session, simIndex, bucketStats,
                 pc, loc, failed, fresh>>

\* PATCH /quotes/:id/status: the controller checks the id and the name of the
\* status, the service runs UPDATE quotes SET status = $1 WHERE id = $2, a
\* single statement, and throws when no row was updated
UpdateStatus(id, body) ==
  LET status == IF body = "approved" THEN "accepted" ELSE body
  IN  /\ IF id \notin QuoteIds THEN resp' = StatusResp(400, "") /\ UNCHANGED quotes
         ELSE IF body = "" THEN resp' = StatusResp(400, quotes[id]) /\ UNCHANGED quotes
         ELSE IF status \notin ALLOWED
           THEN resp' = StatusResp(400, quotes[id]) /\ UNCHANGED quotes
         ELSE IF quotes[id] = "none"
           THEN resp' = StatusResp(500, "none") /\ UNCHANGED quotes
         ELSE /\ quotes' = [quotes EXCEPT ![id] = status]
              /\ resp' = StatusResp(200, status)
      /\ UNCHANGED <<blendEnv, onnxFile, simFile, bucketFile, session, simIndex,
                     bucketStats, pc, loc, failed, fresh>>

\* PUT /quotes/:id with a body whose only allowed field is status: the
\* controller checks the id and the name, the service runs UPDATE quotes SET
\* status = $1 WHERE id = $2 and reads the row back (null without a row)
UpdateQuote(id, body) ==
  /\ IF id \notin QuoteIds THEN resp' = StatusResp(400, "") /\ UNCHANGED quotes
     ELSE IF body # "" /\ body \notin ALLOWED
       THEN resp' = StatusResp(400, quotes[id]) /\ UNCHANGED quotes
     ELSE IF body = "" \/ quotes[id] = "none"
       THEN resp' = StatusResp(200, quotes[id]) /\ UNCHANGED quotes
     ELSE /\ quotes' = [quotes EXCEPT ![id] = body]
          /\ resp' = StatusResp(200, body)
  /\ UNCHANGED <<blendEnv, onnxFile, simFile, bucketFile, session, simIndex, bucketStats,
                 pc, loc, failed, fresh>>

\* SpecStatus: the quote routes that write the status column, on NumQuotes
\* quote ids; the model runtime stays as initialised.  The :id of a request
\* is a quote id, with or without a row, or 0 for a string that is not a
\* UUID; its body carries an allowed status, the UI's "approved", one the
\* enum does not have, or none ("")
NextStatus ==
  \/ \E id \in QuoteIds : CreateQuote(id)
  \/ \E id \in QuoteIds \cup {0}, body \in ALLOWED \cup {"approved", "paid", ""} :
       UpdateStatus(id, body)
  \/ \E id \in QuoteIds \cup {0}, body \in ALLOWED \cup {"approved", "paid", ""} :
       UpdateQuote(id, body)

SpecStatus == InitModel /\ [][NextStatus]_vars

\* SpecCalls: nothing but estimator calls, predictResidual and predictBase one
\* after the other, over artifacts that stay as they are
InitCalls ==
  /\ blendEnv = DefaultBlend
  /\ onnxFile \in ModelFiles
  /\ simFile \in {SValid, SUnsorted}
  /\ bucketFile = BValid
  /\ session = NULL
  /\ simIndex = NULL
  /\ bucketStats = NULL
  /\ pc = [p \in Procs |-> "idle"]
  /\ loc = [p \in Procs |-> IdleLoc]
  /\ resp = NoResp
  /\ failed = {}
  /\ fresh = FALSE
  /\ quotes = [id \in QuoteIds |-> "none"]

NextCalls ==
  \/ \E p \in Solo, f \in Features : Call(p, f)
  \/ \E p \in Solo : PredictBase(p)
  \/ \E p \in Solo : CreateAttempt(p)
  \/ \E p \in Solo : LoadInstall(p)
  \/ \E p \in Solo : AfterEnsure(p)
  \/ \E p \in Solo : BaseAfterEnsure(p)
  \/ \E p \in Solo, out \in InferenceOutcomes : RunSettle(p, out)
  \/ \E p \in Solo, out \in InferenceOutcomes : BaseRunSettle(p, out)

SpecCalls == InitCalls /\ [][NextCalls]_vars

\* SpecQuote: the callers of predictResidual, one request at a time: quote
\* pricing over the requests of QuoteInputs and the warm route; no similarity
\* index, bucket statistics absent, valid or with a negative global mean, the
\* model file absent or loadable; the reset runs at any time
Item(q) == [quantity |-> q]

\* the requests SpecQuote prices: one plain request, varied in turn in its
\* item list, its post code, its customer and its enumerated fields
QuoteInputs ==
  LET BaseInput ==
        [customer |-> NULL, service_type |-> "supply_only", timeframe |-> "asap",
         channel |-> "website", site_postcode |-> Text(<<"b", "1", " ", "2", "x", "y">>),
         items |-> <<Item(Num(4))>>]
      \* empty, plain, a missing, a non-numeric, a numeric-string, a negative
      \* and an overflowing (JSON 1e999) quantity
      ItemLists ==
        {<<>>,
         <<Item(Num(4))>>,
         <<Item(Num(1)), Item(Num(3))>>,
         <<Item(UNDEF)>>,
         <<Item(Text(<<"a", "b", "c">>)), Item(Num(2))>>,
         <<Item(Text(<<"3">>)), Item(NAN), Item(NULL)>>,
         <<Item(Num(-2))>>,
         <<Item(Num(2)), Item(Num(-2))>>,
         <<Item(INF)>>}
      \* absent, null, empty, blank, and free text with and without white space
      Postcodes ==
        {UNDEF, NULL, Text(<<>>), Text(<<" ", "\t">>),
         Text(<<"b", "1", " ", "2", "x", "y">>),
         Text(<<" ", "s", "w", "1", "a", "\t", " ", "1", "a", "a", " ">>),
         Text(<<"B", "1">>),
         Text(<<"a", "b">>),
         Text(<<"B", "1", "5", "3", "A", "B">>),
         Text(<<"b", "|", "1", " ", "2", "x", "y">>)}
      \* unknown, without ratings, loyal, pleased, displeased, and one whose
      \* rating is not a number
      Customers ==
        {NULL,
         [satisfaction |-> UNDEF, total_purchases |-> NULL],
         [satisfaction |-> UNDEF, total_purchases |-> Num(3)],
         [satisfaction |-> Num(5), total_purchases |-> Num(0)],
         [satisfaction |-> Num(1), total_purchases |-> Num(2)],
         [satisfaction |-> Text(<<"n", "/", "a">>), total_purchases |-> Num(12)]}
  IN  {[BaseInput EXCEPT !.items = i] : i \in ItemLists}
      \cup {[BaseInput EXCEPT !.site_postcode = pcd] : pcd \in Postcodes}
      \cup {[BaseInput EXCEPT !.customer = c] : c \in Customers}
      \cup {[BaseInput EXCEPT !.timeframe = "6_12_months", !.items = i] :
              i \in {<<Item(Num(4))>>, <<Item(INF)>>}}
      \cup {[BaseInput EXCEPT !.service_type = "supply_and_install"],
            [BaseInput EXCEPT !.timeframe = "3_6_months"],
            [BaseInput EXCEPT !.channel = "phone"],
            [BaseInput EXCEPT !.channel = "phone", !.site_postcode = NULL]}

InitQuote ==
  /\ blendEnv = DefaultBlend
  /\ onnxFile \in {"absent", "named"}
  /\ simFile = Absent
  /\ bucketFile \in {Absent, BValid, BNegative}
  /\ session = NULL
  /\ simIndex = NULL
  /\ bucketStats = NULL
  /\ pc = [p \in Procs |-> "idle"]
  /\ loc = [p \in Procs |-> IdleLoc]
  /\ resp = NoResp
  /\ failed = {}
  /\ fresh = FALSE
  /\ quotes = [id \in QuoteIds |-> "none"]

NextQuote ==
  \/ \E p \in Solo, input \in QuoteInputs : AiSuggest(p, input)
  \/ \E p \in Solo : WarmRoute(p)
  \/ \E p \in Solo : CreateAttempt(p)
  \/ \E p \in Solo : LoadInstall(p)
  \/ \E p \in Solo : AfterEnsure(p)
  \/ \E p \in Solo, out \in {Num(6), THROW} : RunSettle(p, out)
  \/ \E p \in Solo : AiSuggestResume(p)
  \/ \E p \in Solo : WarmRespond(p)
  \/ Reset

SpecQuote == InitQuote /\ [][NextQuote]_vars

----------------------------------------------------------------------------
(* Properties *)

\* the step is the synchronous start of a predictResidual call by p
CallStep(p) == pc[p] = "idle" /\ (pc'[p] # "idle" \/ resp'.st = "thrown")

\* the parts the call that just returned blended
RespParts == BlendParts(resp.b, resp.k, resp.o, BLEND_WEIGHTS(blendEnv))

SameValue(parts, v) == \A i \in 1..Len(parts) : parts[i].v = v

\* C1 as stated: whenever at least one estimator returned a value, the
\* weights applied to the contributing estimators sum to 1, and equal
\* non-negative estimates v give v, for every configured weight triple
C1_AnyWeightTriple ==
  (resp.st = "returned" /\ Len(RespParts) > 0) =>
    /\ RSum(Renormalized(RespParts)) = Num(1)
    /\ \A v \in {Num(0), Num(6)} : SameValue(RespParts, v) => resp.result = v

\* C1 amended: the same, provided the configured weights of the contributing
\* estimators are not all 0; when they are all 0 the applied weights stay 0
\* and predictResidual returns 0
C1_PositiveWeights ==
  (resp.st = "returned" /\ Len(RespParts) > 0) =>
    IF RIsZero(RSum([i \in 1..Len(RespParts) |-> RespParts[i].w]))
      THEN /\ RIsZero(RSum(Renormalized(RespParts)))
           /\ resp.result = Num(0)
    ELSE /\ RSum(Renormalized(RespParts)) = Num(1)
         /\ \A v \in {Num(0), Num(6)} : SameValue(RespParts, v) => resp.result = v

\* bucket and neighbor both answer 6, the model abstains, default weights:
\* 0.70 and 0.25 are rescaled and the call returns 6
C1_Witness ==
  /\ blendEnv = DefaultBlend
  /\ resp.st = "returned"
  /\ resp.b = Num(6) /\ resp.k = Num(6) /\ resp.o = NULL
  /\ resp.result = Num(6)

\* C2 as stated: a predictResidual call yields absent exactly when the three
\* estimators all abstained, and a number whenever one of them returned a value
C2_AbsentIffAllAbstain ==
  resp.st \in {"returned", "thrown"} =>
    /\ (resp.result = NULL) <=> (resp.b = NULL /\ resp.k = NULL /\ resp.o = NULL)
    /\ (IsNumber(resp.b) \/ IsNumber(resp.k) \/ IsNumber(resp.o)) => IsNumber(resp.result)

C4_NeverThrows == resp.st # "thrown"

ValidFiles ==
  /\ bucketFile = BValid
  /\ simFile \in {SValid, SNegative}
  /\ onnxFile = "named"

\* C6: the reset route reports nothing loaded; a reset right after a reset
\* changes nothing; with valid files the first call after a reset returns a
\* number and leaves all three artifacts reloaded from the files
C6_ResetThenReload ==
  [][/\ resp'.st = "reset" =>
          /\ ~resp'.health.onnx_loaded
          /\ ~resp'.health.similar_loaded
          /\ ~resp'.health.bucket_loaded
          /\ modelHealth(session', simIndex', bucketStats') = resp'.health
     /\ (resp.st = "reset" /\ resp'.st = "reset") => UNCHANGED vars
     /\ (resp'.st \in {"returned", "thrown"} /\ resp'.first /\ ValidFiles) =>
          /\ resp'.st = "returned"
          /\ IsNumber(resp'.result)
          /\ bucketStats' = bucketFile
          /\ simIndex' = simFile
          /\ session' = SessionOf(onnxFile)
          /\ modelHealth(session', simIndex', bucketStats').onnx_loaded
          /\ modelHealth(session', simIndex', bucketStats').similar_loaded
          /\ modelHealth(session', simIndex', bucketStats').bucket_loaded]_vars

\* the first call after a reset has returned a number with all three
\* artifacts loaded again
C6_Witness ==
  /\ resp.st = "returned" /\ resp.first /\ ValidFiles
  /\ IsNumber(resp.result)
  /\ session # NULL /\ simIndex # NULL /\ bucketStats # NULL

\* C7 as stated: a model load that was in flight when the reset ran does not
\* install its session into the cache afterwards
C7_NoStaleInstall ==
  [][\A p \in Procs :
       (pc[p] = "created" /\ loc[p].stale /\ pc'[p] = "ensured") => session' = session]_vars

\* C8 as stated: without a reset, a populated model cache stays populated
C8_LoadOnlyPopulates == [][session # NULL => session' # NULL]_vars

\* C9: a call that finds the bucket-stats (similarity-index) cache empty and
\* a valid file on disk loads it, whatever failed before
C9_JsonLoadersRetry ==
  [][\A p \in Procs : CallStep(p) =>
       /\ (bucketStats = NULL /\ bucketFile = BValid) => bucketStats' = BValid
       /\ (simIndex = NULL /\ simFile \in {SValid, SNegative}) => simIndex' = simFile]_vars

\* both JSON artifacts are cached although a load of each failed since the
\* last reset
C9_Witness ==
  /\ {"bucket", "sim"} \subseteq failed
  /\ bucketStats = BValid
  /\ simIndex = SValid

\* C10 as stated: a cached artifact is kept, whatever happens to its file,
\* by every step that is not the reset
C10_CachedUntilReset ==
  [][resp'.st # "reset" =>
       /\ session # NULL => session' = session
       /\ simIndex # NULL => simIndex' = simIndex
       /\ bucketStats # NULL => bucketStats' = bucketStats]_vars

\* the step is the synchronous start of a predictBase call by p
BaseCallStep(p) == pc[p] = "idle" /\ pc'[p] # "idle" /\ loc'[p].fn = "predictBase"

\* C11: when session.run rejects on a loaded model, the call's model estimate
\* is absent and the session stays cached: health still reports the model
\* loaded, and the next call, through either entry point, finds the session,
\* starts no load and goes on with that same session
C11_InferenceFailureKeepsSession ==
  [][\A p \in Procs :
       /\ (pc[p] = "running" /\ session # NULL /\ resp'.out = THROW) =>
            /\ resp'.o = NULL
            /\ session' = session
            /\ modelHealth(session', simIndex', bucketStats').onnx_loaded
       /\ (resp.out = THROW /\ session # NULL /\ (CallStep(p) \/ BaseCallStep(p))) =>
            /\ pc'[p] = "ensured" /\ loc'[p].ret
            /\ session' = session
       /\ (pc[p] = "ensured" /\ loc[p].ret /\ session # NULL /\ pc'[p] # "ensured") =>
            /\ session' = session
            /\ (\/ loc[p].fn = "predictResidual"
                \/ loc[p].fn = "predictBase" /\ Len(inputNames(session)) = 1)
                 => pc'[p] = "running"]_vars

\* a predictBase call on a loaded one-input model has just abstained because
\* session.run rejected, and the session is still cached
C11_Witness ==
  /\ resp.st = "base" /\ resp.out = THROW /\ resp.o = NULL
  /\ session = SessionOf("single")

\* C20 as stated: session.run is started by predictBase only on a session
\* that declares exactly one input (otherwise predictBase returns absent
\* without running it), and by the model estimator of predictResidual only on
\* a session that does not declare exactly one input
C20_OneCallingConvention ==
  [][\A p \in Procs :
       (pc[p] = "ensured" /\ loc[p].ret /\ session # NULL /\ pc'[p] # "ensured") =>
         IF loc[p].fn = "predictBase"
           THEN IF Len(inputNames(session)) = 1
                  THEN pc'[p] = "running"
                ELSE pc'[p] = "idle" /\ resp'.out = NoRun /\ resp'.result = NULL
         ELSE pc'[p] = "running" => Len(inputNames(session)) # 1]_vars

\* the bucket and neighbor estimates of the call p has just started
CallB(p) == IF resp'.st = "thrown" THEN resp'.b ELSE loc'[p].b

CallK(p) == IF resp'.st = "thrown" THEN resp'.k ELSE loc'[p].k

\* the file fails to parse, or lacks a numeric version or a numeric second
\* top-level field (global_mean, k)
MalformedJson(file, second) ==
  \/ file.kind = "garbage"
  \/ file.kind = "json" /\ (~IsNumber(file.version) \/ ~IsNumber(second))

\* C12: a call that finds a JSON cache empty and its file malformed leaves
\* the cache empty; health reports the artifact not loaded, its estimator
\* abstains, and the call throws only if the other artifact's estimator does
C12_MalformedNeverInstalled ==
  [][\A p \in Procs, f \in Features : Call(p, f) =>
       /\ (bucketStats = NULL /\ bucketFile.kind # "absent"
              /\ MalformedJson(bucketFile, bucketFile.global_mean)) =>
            /\ bucketStats' = NULL
            /\ ~modelHealth(session', simIndex', bucketStats').bucket_loaded
            /\ CallB(p) = NULL
            /\ resp'.st = "thrown" => simIndex' # NULL
       /\ (simIndex = NULL /\ simFile.kind # "absent" /\ MalformedJson(simFile, simFile.k)) =>
            /\ simIndex' = NULL
            /\ ~modelHealth(session', simIndex', bucketStats').similar_loaded
            /\ CallK(p) = NULL
            /\ resp'.st # "thrown"]_vars

\* a call has returned absent over a similarity index without version and
\* bucket stats without global_mean; both loads were attempted, both caches
\* are empty
C12_Witness ==
  /\ resp.st = "returned" /\ resp.result = NULL
  /\ simFile = SNoVersion /\ bucketFile = BNoGlobalMean
  /\ {"bucket", "sim"} \subseteq failed
  /\ simIndex = NULL /\ bucketStats = NULL

\* C13: over a loaded bucket-stats artifact with a finite global_mean, the
\* bucket estimator returns global_mean for a record whose key has no entry
C13_BucketFallback ==
  [][\A p \in Procs, f \in Features : Call(p, f) =>
       ((/\ bucketStats' # NULL
         /\ bucketKey(f) \notin DOMAIN bucketStats'.buckets.m
         /\ IsFinite(bucketStats'.global_mean)) => CallB(p) = bucketStats'.global_mean)]_vars

\* only the bucket estimator answered, over an artifact without any bucket
\* and global_mean 50, and the call returned 50
C13_Witness ==
  /\ resp.st = "returned"
  /\ bucketStats = BEmpty
  /\ resp.b = Num(50) /\ resp.k = NULL /\ resp.o = NULL
  /\ resp.result = Num(50)

\* C14: an entry with a finite shrink_mean is what the bucket estimator
\* returns, whatever its n; global_mean is returned only when the entry is
\* missing or its shrink_mean is not finite
C14_ShrinkMeanTrusted ==
  [][\A p \in Procs, f \in Features : Call(p, f) =>
       (bucketStats' = NULL \/
          LET key    == bucketKey(f)
              has    == key \in DOMAIN bucketStats'.buckets.m
              finite == has /\ IsFinite(bucketStats'.buckets.m[key].shrink_mean)
          IN  /\ finite => CallB(p) = bucketStats'.buckets.m[key].shrink_mean
              /\ (CallB(p) # NULL /\ ~finite) => CallB(p) = bucketStats'.global_mean)]_vars

\* the bucket was seen once (n = 1): the estimator answered its shrink_mean
\* 120, not the global_mean 50
C14_Witness ==
  /\ resp.st = "returned"
  /\ bucketStats = BSmallN
  /\ resp.b = Num(120)

\* the weighted average of the points of pts with index in I, as seen from
\* the query (Q, L); absent when I is empty
KnnAverage(pts, I, Q, L) ==
  LET ds  == [i \in 1..Len(pts) |-> DistOf(pts[i], Q, L)]
      num == RSum([i \in 1..Len(pts) |->
                     IF i \in I THEN RMul(KnnWeight(ds[i]), Num(ds[i].r)) ELSE Num(0)])
      den == RSum([i \in 1..Len(pts) |-> IF i \in I THEN KnnWeight(ds[i]) ELSE Num(0)])
  IN  IF RIsZero(den) THEN NULL ELSE RDiv(num, den)

\* est is the weighted average over c points of pts, none of them farther
\* from (Q, L) than a point left out
AveragesNearest(pts, c, Q, L, est) ==
  \E I \in SUBSET (1..Len(pts)) :
    /\ Cardinality(I) = c
    /\ \A i \in I, j \in (1..Len(pts)) \ I : DistOf(pts[i], Q, L).d2 <= DistOf(pts[j], Q, L).d2
    /\ est = KnnAverage(pts, I, Q, L)

\* the step is a call for f that finds a non-empty bucket for f's key
KnnStep(p, f) ==
  /\ Call(p, f)
  /\ simIndex' # NULL
  /\ bucketKey(f) \in DOMAIN simIndex'.buckets.m
  /\ Len(simIndex'.buckets.m[bucketKey(f)]) >= 1

KnnPts(f) == simIndex'.buckets.m[bucketKey(f)]

\* C15 as stated: for every configured k and every bucket with n >= 1 points
\* the neighbor estimate is the weighted average over exactly min(k, n)
\* points, the nearest to the query
C15_MinKNearest ==
  [][\A p \in Procs, f \in Features : KnnStep(p, f) =>
       LET n == Len(KnnPts(f))
           k == simIndex'.k
           c == IF RLess(k, Num(n)) THEN k ELSE Num(n)
       IN  /\ c.den = 1
           /\ AveragesNearest(KnnPts(f), c.num, f.qty_sum, f.line_count, CallK(p))]_vars

\* C15 amended: the same for every configured integer k >= 1; a configured
\* k of 0 is replaced by 5; a negative integer k leaves out the -k farthest
\* points, and the estimator abstains when that leaves none
C15_MinKNearestPositive ==
  [][\A p \in Procs, f \in Features : KnnStep(p, f) =>
       LET n == Len(KnnPts(f))
           k == simIndex'.k
           c == IF k.num > 0 THEN Min(k.num, n)
                ELSE IF k.num = 0 THEN Min(5, n)
                ELSE IF n + k.num > 0 THEN n + k.num ELSE 0
       IN  k.den = 1 => AveragesNearest(KnnPts(f), c, f.qty_sum, f.line_count, CallK(p))]_vars

\* k = 2 over three points: the farthest point (residual 6) is left out and
\* the estimate is the -4 of the two nearest
C15_Witness ==
  /\ resp.st = "returned"
  /\ simIndex = KnnIndex(Num(2), <<Pt(7, 2, 6), Pt(4, 2, -4), Pt(5, 2, -4)>>)
  /\ resp.k = Num(-4)

\* C16: a bucket with 1 <= n < k points gives the weighted average over all
\* n points, a finite number; with n = 1 it is that point's residual
C16_FewerThanK ==
  [][\A p \in Procs, f \in Features : KnnStep(p, f) =>
       LET pts == KnnPts(f)
           n   == Len(pts)
       IN  RLess(Num(n), simIndex'.k) =>
             /\ IsFinite(CallK(p))
             /\ CallK(p) = KnnAverage(pts, 1..n, f.qty_sum, f.line_count)
             /\ n = 1 => CallK(p) = Num(pts[1].r)]_vars

\* k = 5 over two points at distances 1 and 3 with residuals -4 and 6:
\* (-4/1 + 6/3) / (1/1 + 1/3) = -3/2
C16_Witness ==
  /\ resp.st = "returned"
  /\ simIndex = KnnIndex(Num(5), <<Pt(5, 2, -4), Pt(7, 2, 6)>>)
  /\ resp.k = Rat(-3, 2)

\* the points of pts at the query (Q, L)
ExactMatches(pts, Q, L) == {i \in 1..Len(pts) : pts[i].q = Q /\ pts[i].l = L}

\* C17 as stated: when the bucket holds a point at the query (and k >= 1
\* points are selected), the neighbor estimate equals that point's residual,
\* whatever the other points are
C17_ExactMatchWins ==
  [][\A p \in Procs, f \in Features : KnnStep(p, f) =>
       \A i \in ExactMatches(KnnPts(f), f.qty_sum, f.line_count) :
         RLess(Num(0), simIndex'.k) => CallK(p) = Num(KnnPts(f)[i].r)]_vars

\* |x| for a rational
RAbs(x) == IF RLess(x, Num(0)) THEN RMul(Num(-1), x) ELSE x

\* C17 amended: when the bucket holds points at the query, all with residual
\* r0, and k >= 1, the estimate differs from r0 by at most
\* (sum over the other points of |r - r0| / d) / 1e6, and equals r0 when no
\* other point carries another residual
C17_ExactMatchDominates ==
  [][\A p \in Procs, f \in Features : KnnStep(p, f) =>
       LET pts == KnnPts(f)
           E   == ExactMatches(pts, f.qty_sum, f.line_count)
           ds  == [i \in 1..Len(pts) |-> DistOf(pts[i], f.qty_sum, f.line_count)]
       IN  \A i \in E :
             ((\A j \in E : pts[j].r = pts[i].r) /\ RLess(Num(0), simIndex'.k)) =>
               LET r0   == Num(pts[i].r)
                   pull == RSum([j \in 1..Len(pts) |->
                                   IF j \in E THEN Num(0)
                                   ELSE RDiv(RAbs(RAdd(Num(pts[j].r), RMul(Num(-1), r0))),
                                             Num(Sqrt(ds[j].d2)))])
                   dev  == RAbs(RAdd(CallK(p), RMul(Num(-1), r0)))
               IN  /\ IsFinite(CallK(p))
                   /\ ~RLess(pull, RMul(Num(1000000), dev))
                   /\ (\A j \in 1..Len(pts) : pts[j].r = pts[i].r) => CallK(p) = r0]_vars

\* an exact match with residual 6 and a point at distance 1 with residual -4,
\* k = 2: the estimate is (6000000 - 4) / 1000001, close to 6 and not 6
C17_Witness ==
  /\ resp.st = "returned"
  /\ simIndex = KnnIndex(Num(2), <<Pt(4, 2, 6), Pt(5, 2, -4)>>)
  /\ resp.k = Rat(5999996, 1000001)

\* C18: default weights, the model estimator abstaining: bucket b and
\* neighbor n give (0.70*b + 0.25*n) / 0.95 clamped at 0, which differs from
\* 0.70*b + 0.25*n when that is positive; the bucket alone gives b clamped
\* at 0; b = n gives that value
C18_RenormalizedBlend ==
  (resp.st = "returned" /\ blendEnv = DefaultBlend /\ resp.o = NULL) =>
    /\ (resp.b # NULL /\ resp.k # NULL) =>
         LET plain == RAdd(RMul(Rat(70, 100), resp.b), RMul(Rat(25, 100), resp.k))
         IN  /\ resp.result = Max0(RDiv(plain, Rat(95, 100)))
             /\ RLess(Num(0), plain) => resp.result # plain
             /\ resp.b = resp.k => resp.result = Max0(resp.b)
    /\ (resp.b # NULL /\ resp.k = NULL) => resp.result = Max0(resp.b)
    /\ (resp.b = Num(50) /\ resp.k = NULL) => resp.result = Num(50)
    /\ (resp.b = Num(120) /\ resp.k = Num(120)) => resp.result = Num(120)

\* the bucket answered 6, the neighbors -4, the model abstained: the call
\* returned (4.2 - 1) / 0.95 = 64/19
C18_Witness ==
  /\ resp.st = "returned" /\ blendEnv = DefaultBlend
  /\ resp.b = Num(6) /\ resp.k = Num(-4) /\ resp.o = NULL
  /\ resp.result = Rat(64, 19)

\* the component is missing, or its trimmed text is not made of digits, dots
\* and a sign only, or it starts with a minus sign
RejectedComponent(comps, i) ==
  \/ i > Len(comps)
  \/ \E j \in 1..Len(Trim(comps[i])) : Trim(comps[i])[j] \notin Digits \cup {".", "-", "+"}
  \/ Trim(comps[i]) # <<>> /\ Head(Trim(comps[i])) = "-"

\* C19: for every value of PRICING_BLEND the three weights are >= 0, every
\* missing, non-numeric, non-finite or negative component has weight 0, and
\* the weights sum to 1, unless every component is 0 after the defaulting:
\* then the weights are all 0 and a call in which an estimator answered
\* returns 0
C19_BlendWeightsParsed ==
  \A env \in BlendStrings : blendEnv = ParseBlendEnv(env) =>
    LET W     == BLEND_WEIGHTS(blendEnv)
        ws    == <<W.wb, W.wk, W.wo>>
        comps == SplitComma(IF env = <<>> THEN DefaultBlendString ELSE env)
        zero  == \A i \in 1..3 : RejectedComponent(comps, i) \/ blendEnv[i] = Num(0)
    IN  /\ \A i \in 1..3 : IsFinite(ws[i]) /\ ~RLess(ws[i], Num(0))
        /\ \A i \in 1..3 : RejectedComponent(comps, i) => ws[i] = Num(0)
        /\ IF zero
             THEN /\ \A i \in 1..3 : ws[i] = Num(0)
                  /\ (resp.st = "returned" /\ Len(RespParts) > 0) => resp.result = Num(0)
           ELSE RSum(ws) = Num(1)

\* PRICING_BLEND = "x,-1,Infinity": the bucket answered 50 and the call
\* returned 0
C19_Witness ==
  /\ blendEnv = ParseBlendEnv(BlendAllRejected)
  /\ resp.st = "returned"
  /\ resp.b = Num(50)
  /\ resp.result = Num(0)

\* C21: every health snapshot reports each loaded flag true exactly when
\* the cache holds a value and the single-vector style exactly when a cached
\* session declares one input, and the step that takes it changes no cache
C21_HealthIsSnapshot ==
  [][resp'.st \in {"health", "reset"} =>
       /\ resp'.health.onnx_loaded <=> session' # NULL
       /\ resp'.health.similar_loaded <=> simIndex' # NULL
       /\ resp'.health.bucket_loaded <=> bucketStats' # NULL
       /\ resp'.health.inputStyle.style = "single-float-vector" <=>
            (session' # NULL /\ Len(inputNames(session')) = 1)
       /\ resp'.st = "health" =>
            /\ session' = session
            /\ simIndex' = simIndex
            /\ bucketStats' = bucketStats]_vars

\* the health route has answered with a one-input model loaded: the style
\* is the single-vector one, the JSON artifacts were loaded by earlier calls
C21_Witness ==
  /\ resp.st = "health"
  /\ session = SessionOf("single")
  /\ resp.health.onnx_loaded /\ resp.health.similar_loaded /\ resp.health.bucket_loaded
  /\ resp.health.inputStyle = [style |-> "single-float-vector", n |-> 1]

\* C22 as stated: every feature record a caller hands to predictResidual, on
\* the quote path with any item list and on the administrative warm route,
\* carries line_count >= 1
C22_LineCountAtLeastOne ==
  [][\A p \in Procs :
       (pc[p] = "idle" /\ pc'[p] # "idle" /\ loc'[p].caller # NoCaller) =>
         loc'[p].caller.features.line_count >= 1]_vars

\* the request whose pricing p has in flight, if any
Pricing(p) == loc[p].caller # NoCaller /\ loc[p].caller.fn = "aiSuggestCosts"

\* the area C23 describes for a post code
StatedArea(postcode) ==
  IF postcode = UNDEF \/ postcode = NULL THEN <<>>
  ELSE LET s == ToUpperCase(TrimSpace(postcode.text))
       IN  IF \E i \in 1..Len(s) : s[i] \in WhiteSpace THEN FirstField(s)
           ELSE SubSeq(s, 1, Min(3, Len(s)))

\* C23 as stated: the postcode_area of a pricing request is the trimmed,
\* upper-cased post code cut to its first whitespace-delimited token when it
\* contains white space and to its first 1-3 characters when it contains none;
\* an empty, blank or absent post code gives the empty string
C23_PostcodeArea ==
  \A p \in Procs :
    Pricing(p) =>
      loc[p].caller.features.postcode_area =
        JoinChars(StatedArea(loc[p].caller.input.site_postcode))

\* the sum C24 describes: the quantities of the items, one that is missing or
\* not numeric counted as 0
RECURSIVE StatedQtySum(_)
StatedQtySum(items) ==
  IF items = <<>> THEN Num(0)
  ELSE LET q == ToNumber(Head(items).quantity)
       IN  XAdd(IF q = NAN THEN Num(0) ELSE q, StatedQtySum(Tail(items)))

\* C24 as stated: for every item list the qty_sum of the feature record is
\* the sum of the items' quantities, a missing or non-numeric quantity counted
\* as 0, and is a non-negative number
C24_QtySum ==
  \A p \in Procs :
    Pricing(p) =>
      LET sum == StatedQtySum(loc[p].caller.input.items)
      IN  /\ loc[p].caller.features.qty_sum =
               (IF IsFinite(sum) /\ sum.den = 1 THEN sum.num ELSE sum)
          /\ sum # NAN
          /\ Sign(sum) >= 0

SameBucketFields(f, g) ==
  /\ f.service_type = g.service_type
  /\ f.timeframe = g.timeframe
  /\ f.channel = g.channel
  /\ f.postcode_area = g.postcode_area

\* the step is the synchronous start of predictResidual for a caller's record
CallerStep(p) == pc[p] = "idle" /\ pc'[p] # "idle" /\ loc'[p].caller # NoCaller

C26_CachesReadOnly ==
  [][/\ bucketStats # NULL => bucketStats' = bucketStats
     /\ simIndex # NULL => simIndex' = simIndex
     /\ (bucketStats = NULL /\ bucketStats' # NULL) =>
          bucketStats' = ensureBucketStatsLoaded(NULL, bucketFile)
     /\ (simIndex = NULL /\ simIndex' # NULL) =>
          simIndex' = ensureSimilarIndexLoaded(NULL, simFile)]_vars

\* a predictResidual call has returned a neighbor estimate from an index
\* whose points are cached farthest first, and a predictBase call after it
\* has returned a value
C26_Witness ==
  /\ resp.st = "base" /\ resp.o = Num(6)
  /\ simIndex # NULL
  /\ simIndex.buckets.m[bucketKey(QuoteFeatures)] = <<Pt(8, 2, -4), Pt(4, 5, 6), Pt(4, 2, 6)>>
  /\ bucketStats # NULL

\* C27: a predictResidual call that has passed its first suspension point,
\* whatever the reset did to the caches while it was suspended in the model
\* load or in session.run, completes by returning absent or a number >= 0,
\* never by throwing
C27_ResetInFlight ==
  [][\A p \in Procs :
       (loc[p].fn = "predictResidual" /\ pc[p] # "idle" /\ pc'[p] = "idle") =>
         /\ resp'.st = "returned"
         /\ \/ resp'.result = NULL
            \/ IsFinite(resp'.result) /\ ~RLess(resp'.result, Num(0))]_vars

\* session.run resolved with a value after the reset had dropped the session:
\* the model estimate is absent and the call has returned the blend of the
\* other two estimates
C27_Witness ==
  /\ resp.st = "returned" /\ resp.out = Num(6) /\ resp.o = NULL
  /\ resp.result # NULL
  /\ session = NULL

\* C28: the bucket and the neighbor estimate of a call are both computed in
\* its first, synchronous step from the caches and files as that step finds
\* them; after it, no step of the call, of another request or of the reset
\* changes them, and they are what the call blends when it returns
C28_EstimatesFixedAtCall ==
  [][\A p \in Procs :
       /\ (pc[p] = "idle" /\ pc'[p] # "idle") =>
            /\ loc'[p].b = bucketResidual(ensureBucketStatsLoaded(bucketStats, bucketFile),
                                          QuoteFeatures)
            /\ loc'[p].k = knnResidual(ensureSimilarIndexLoaded(simIndex, simFile),
                                       QuoteFeatures)
       /\ (pc[p] # "idle" /\ pc'[p] # "idle") =>
            loc'[p].b = loc[p].b /\ loc'[p].k = loc[p].k
       /\ (pc[p] # "idle" /\ pc'[p] = "idle") =>
            resp'.b = loc[p].b /\ resp'.k = loc[p].k]_vars

\* a call has returned the blend of the estimates it took from the loaded
\* artifacts although the reset has emptied both caches since
C28_Witness ==
  /\ resp.st = "returned" /\ resp.b = Num(6) /\ resp.k # NULL
  /\ bucketStats = NULL /\ simIndex = NULL
  /\ \A p \in Procs : pc[p] = "idle"

\* C29 as stated: when predictResidual resolved with a number, 0 included,
\* ai_pred_cost is that number (to the penny); when it resolved with absent,
\* ai_pred_cost is the heuristic uplift on the baseline subtotal; in both
\* cases ai_pred_cost is a finite number
C29_ResidualOrFallback ==
  [][\A p \in Procs :
       (pc[p] = "resolved" /\ Pricing(p) /\ pc'[p] = "idle") =>
         LET addon == loc[p].addon
             input == loc[p].caller.input
         IN  /\ resp'.st = "priced"
             /\ IsFinite(addon) => resp'.result = r2(addon)
             /\ addon = NULL => resp'.result = r2(fallbackUplift(input))
             /\ IsFinite(resp'.result)]_vars

\* the workflow draft -> issued -> accepted | declined | expired | converted
ValidSuccessor(from, to) ==
  \/ from = "none" /\ to = "draft"
  \/ from = "draft" /\ to = "issued"
  \/ from = "issued" /\ to \in {"accepted", "declined", "expired", "converted"}

\* C30 as stated: the stored status of a quote changes only to a valid
\* successor of its current status
C30_StatusWorkflow ==
  [][\A id \in QuoteIds :
       quotes'[id] # quotes[id] => ValidSuccessor(quotes[id], quotes'[id])]_vars

====
